---------------------------- MODULE Spec2Model ----------------------------
(***************************************************************************)
(* zcached: an in-memory key-value cache spoken to over a length-prefixed  *)
(* binary protocol.  The module models                                     *)
(*   - the wire codec (src/zcached/src/lib.rs, serialization.rs),          *)
(*   - the store (src/zcached/src/db.rs),                                  *)
(*   - the server's per-connection loop handle_connection (server.rs),     *)
(*   - the client's calls and receive_response (client.rs).                *)
(* A byte is a number in 0..255, a byte string a sequence of bytes.  A     *)
(* Rust &str / String is the sequence of its UTF-8 bytes, so as_bytes()    *)
(* and from_utf8() keep the bytes and from_utf8 adds the validity check.   *)
(***************************************************************************)
EXTENDS Integers, Sequences, FiniteSets, TLC

(***************************************************************************)
(* Bounds of the model.                                                    *)
(***************************************************************************)
\* longest key or value of the codec round trips
MaxStrLen == 2
\* most request frames a peer puts on one server connection
MaxFrames == 3
\* most bytes cut off the end of the peer's stream before it closes
MaxCut == 1
\* most bytes that follow the fields of an input handed to the parsers
MaxTail == 1

(***************************************************************************)
(* Small helpers on byte strings.                                          *)
(***************************************************************************)
Min(a, b) == IF a <= b THEN a ELSE b

Max(a, b) == IF a >= b THEN a ELSE b

\* vec![0; n]
Zeros(n) == [i \in 1..n |-> 0]

\* the slice s[from..to] of Rust (0-based, to exclusive)
Slice(s, from, to) == SubSeq(s, from + 1, to)

\* (n as u32).to_be_bytes(): the low 32 bits of n, most significant byte first
to_be_bytes(n) ==
    << (n \div 16777216) % 256, (n \div 65536) % 256, (n \div 256) % 256, n % 256 >>

\* u32::from_be_bytes(b) as usize.  The model's integers are 32 bits wide and
\* signed, so a top byte of 128 or more is held at 127: both values exceed
\* the length of every modelled input, which is all the code compares them to.
from_be_bytes(b) ==
    Min(b[1], 127) * 16777216 + b[2] * 65536 + b[3] * 256 + b[4]

IsContinuation(b) == b >= 128 /\ b <= 191

\* std::str::from_utf8(s).is_ok(), from position i (1-based) on
RECURSIVE Utf8From(_, _)
Utf8From(s, i) ==
    IF i > Len(s) THEN TRUE
    ELSE LET b == s[i] IN
        IF b < 128 THEN Utf8From(s, i + 1)
        ELSE IF b >= 194 /\ b <= 223
            THEN /\ i + 1 <= Len(s)
                 /\ IsContinuation(s[i + 1])
                 /\ Utf8From(s, i + 2)
        ELSE IF b >= 224 /\ b <= 239
            THEN /\ i + 2 <= Len(s)
                 /\ IsContinuation(s[i + 1])
                 /\ (b = 224 => s[i + 1] >= 160)
                 /\ (b = 237 => s[i + 1] <= 159)
                 /\ IsContinuation(s[i + 2])
                 /\ Utf8From(s, i + 3)
        ELSE IF b >= 240 /\ b <= 244
            THEN /\ i + 3 <= Len(s)
                 /\ IsContinuation(s[i + 1])
                 /\ (b = 240 => s[i + 1] >= 144)
                 /\ (b = 244 => s[i + 1] <= 143)
                 /\ IsContinuation(s[i + 2])
                 /\ IsContinuation(s[i + 3])
                 /\ Utf8From(s, i + 4)
        ELSE FALSE

from_utf8_ok(s) == Utf8From(s, 1)

(***************************************************************************)
(* Requests and responses (lib.rs:15-28).                                  *)
(***************************************************************************)
NoStr == << >>

GetRequest(k) == [op |-> "Get", key |-> k, value |-> NoStr]

SetRequest(k, v) == [op |-> "Set", key |-> k, value |-> v]

DeleteRequest(k) == [op |-> "Delete", key |-> k, value |-> NoStr]

FlushRequest == [op |-> "Flush", key |-> NoStr, value |-> NoStr]

\* Option<String>
None == [some |-> FALSE, v |-> NoStr]

Some(s) == [some |-> TRUE, v |-> s]

GetResponse(o) == [op |-> "Get", value |-> o]

SetResponse == [op |-> "Set", value |-> None]

DeleteResponse == [op |-> "Delete", value |-> None]

FlushResponse == [op |-> "Flush", value |-> None]

(***************************************************************************)
(* The wire codec.                                                         *)
(***************************************************************************)
\* Request::serialize
serialize_request(request) ==
    CASE request.op = "Get" ->
            <<1>> \o to_be_bytes(Len(request.key)) \o request.key
      [] request.op = "Set" ->
            <<2>> \o to_be_bytes(Len(request.key)) \o request.key
                  \o to_be_bytes(Len(request.value)) \o request.value
      [] request.op = "Delete" ->
            <<3>> \o to_be_bytes(Len(request.key)) \o request.key
      [] request.op = "Flush" -> <<4>>

\* serialize_response
serialize_response(response) ==
    CASE response.op = "Get" ->
            IF response.value.some
            THEN <<1>> \o to_be_bytes(Len(response.value.v)) \o response.value.v
            ELSE <<1>>
      [] response.op = "Set" -> <<2>>
      [] response.op = "Delete" -> <<3>>
      [] response.op = "Flush" -> <<4>>

\* The three outcomes of read_element: Ok(Some(element)), Ok(None), Err(_),
\* each with the position the cursor is left at.
ElemSome(e, c) == [res |-> "Some", elem |-> e, cursor |-> c]

ElemNone(c) == [res |-> "None", elem |-> NoStr, cursor |-> c]

ElemErr(c) == [res |-> "Err", elem |-> NoStr, cursor |-> c]

\* a read_element that takes a length of zero for an empty element
read_element_empty(input, cursor) ==
    LET element_size_end == cursor + 4 IN
    IF Len(input) < element_size_end THEN ElemNone(cursor)
    ELSE LET element_size == from_be_bytes(Slice(input, cursor, element_size_end)) IN
        LET element_end == element_size_end + element_size IN
        IF Len(input) < element_end THEN ElemNone(element_size_end)
        ELSE LET element_bytes == Slice(input, element_size_end, element_end) IN
            IF from_utf8_ok(element_bytes)
            THEN ElemSome(element_bytes, element_end)
            ELSE ElemErr(element_end)

\* read_element(input, &mut cursor)
read_element(input, cursor) ==
    LET element_size_end == cursor + 4 IN
    IF Len(input) < element_size_end THEN ElemNone(cursor)
    ELSE LET element_size == from_be_bytes(Slice(input, cursor, element_size_end)) IN
        IF element_size = 0 THEN ElemNone(cursor)
        ELSE LET element_end == element_size_end + element_size IN
            IF Len(input) < element_end THEN ElemNone(element_size_end)
            ELSE LET element_bytes == Slice(input, element_size_end, element_end) IN
                IF from_utf8_ok(element_bytes)
                THEN ElemSome(element_bytes, element_end)
                ELSE ElemErr(element_end)

\* The outcomes of parse_request: Ok(Some((request, n))), Ok(None), Err(_)
Frame(r, n) == [res |-> "Some", request |-> r, n |-> n]

Incomplete == [res |-> "None", request |-> FlushRequest, n |-> 0]

Malformed == [res |-> "Err", request |-> FlushRequest, n |-> 0]

\* the frame of a request that holds one key (GET, DELETE), from read_element's outcome
key_frame(op, elem) ==
    IF elem.res = "Err" THEN Malformed
    ELSE IF elem.res = "None" THEN Incomplete
    ELSE Frame([op |-> op, key |-> elem.elem, value |-> NoStr], elem.cursor)

\* the frame of a SET: both elements are read before the pair is matched
set_frame(key, value) ==
    IF key.res = "Some" /\ value.res = "Some"
    THEN Frame(SetRequest(key.elem, value.elem), value.cursor)
    ELSE IF key.res # "Err" /\ value.res # "Err" THEN Incomplete
    ELSE Malformed

\* a parse_request that rejects a first byte that is no opcode
parse_request_strict(input) ==
    IF Len(input) = 0 THEN Incomplete
    ELSE LET op_code == input[1] IN
        CASE op_code = 1 -> key_frame("Get", read_element(input, 1))
          [] op_code = 2 ->
                set_frame(read_element(input, 1),
                          read_element(input, read_element(input, 1).cursor))
          [] op_code = 3 -> key_frame("Delete", read_element(input, 1))
          [] op_code = 4 -> Frame(FlushRequest, 1)
          [] OTHER -> Malformed

\* parse_request(input)
parse_request(input) ==
    IF Len(input) = 0 THEN Incomplete
    ELSE LET op_code == input[1] IN
        CASE op_code = 1 -> key_frame("Get", read_element(input, 1))
          [] op_code = 2 ->
                set_frame(read_element(input, 1),
                          read_element(input, read_element(input, 1).cursor))
          [] op_code = 3 -> key_frame("Delete", read_element(input, 1))
          [] op_code = 4 -> Frame(FlushRequest, 1)
          [] OTHER -> Incomplete

\* The outcomes of parse_response: Ok(Some(response)), Ok(None), Err(_)
Parsed(r) == [res |-> "Some", response |-> r]

NoResponse == [res |-> "None", response |-> FlushResponse]

BadResponse == [res |-> "Err", response |-> FlushResponse]

\* Response::Get(key.map(ToString::to_string)), with read_element(..)? before it
get_response(key) ==
    IF key.res = "Err" THEN BadResponse
    ELSE IF key.res = "None" THEN Parsed(GetResponse(None))
    ELSE Parsed(GetResponse(Some(key.elem)))

\* parse_response(input)
parse_response(input) ==
    IF Len(input) = 0 THEN NoResponse
    ELSE LET op_code == input[1] IN
        CASE op_code = 1 -> get_response(read_element(input, 1))
          [] op_code = 2 -> Parsed(SetResponse)
          [] op_code = 3 -> Parsed(DeleteResponse)
          [] op_code = 4 -> Parsed(FlushResponse)
          [] OTHER -> NoResponse

(***************************************************************************)
(* The store (db.rs): HashMap<String, String> behind Arc<Mutex<..>>.  A    *)
(* map is a function from the keys it holds to their values.               *)
(***************************************************************************)
\* HashMap::new()
EmptyMap == [k \in {} |-> NoStr]

\* DB::get: lock.get(key).map(ToString::to_string)
db_get(map, key) == IF key \in DOMAIN map THEN Some(map[key]) ELSE None

\* DB::insert: lock.insert(key, value)
\* an insert that keeps the binding the key already has
db_insert_new(map, key, value) ==
    [k \in (DOMAIN map) \union {key} |-> IF k \in DOMAIN map THEN map[k] ELSE value]

db_insert(map, key, value) ==
    [k \in (DOMAIN map) \union {key} |-> IF k = key THEN value ELSE map[k]]

\* DB::remove: lock.remove(key)
\* a remove that leaves the binding in place
db_remove_kept(map, key) == map

db_remove(map, key) == [k \in (DOMAIN map) \ {key} |-> map[k]]

\* DB::clear: lock.clear()
\* a clear that removes nothing
db_clear_kept(map) == map

db_clear(map) == EmptyMap

(***************************************************************************)
(* Vec<u8> as handle_connection uses it: its elements and its capacity.    *)
(***************************************************************************)
\* The capacity after Vec::reserve has to grow a Vec<u8> of capacity cap to
\* hold required elements (alloc::raw_vec grow_amortized: at least double,
\* and never fewer than 8 elements for one-byte elements).
grow_amortized(cap, required) == Max(8, Max(cap * 2, required))

\* buffer.resize(new_len, 0): the elements and the capacity afterwards
vec_resize(vec, cap, new_len) ==
    IF new_len > Len(vec)
    THEN [vec |-> vec \o Zeros(new_len - Len(vec)),
          cap |-> IF new_len > cap THEN grow_amortized(cap, new_len) ELSE cap]
    ELSE [vec |-> SubSeq(vec, 1, new_len), cap |-> cap]

\* a copy_within that moves nothing
copy_within_unmoved(vec, from, to) == vec

\* buffer.copy_within(from..to, 0): the bytes past the copied ones stay
copy_within(vec, from, to) ==
    [i \in 1..Len(vec) |-> IF i <= to - from THEN vec[from + i] ELSE vec[i]]

\* stream.read(&mut buffer[at..]) having returned the n bytes of chunk
read_into(vec, at, chunk) ==
    [i \in 1..Len(vec) |->
        IF i > at /\ i <= at + Len(chunk) THEN chunk[i - at] ELSE vec[i]]

(***************************************************************************)
(* State.                                                                  *)
(***************************************************************************)
VARIABLES
    \* the codec round trip
    codec_stage,          \* "idle", "value", "bytes", "parsed"
    codec_kind,           \* "request" or "response"
    codec_value,          \* the Request or Response put in
    codec_bytes,          \* its serialization
    codec_result,         \* what parse_request / parse_response made of it
    \* one server connection: handle_connection's arguments and locals
    initial_buffer_size,
    max_buffer_size,
    buffer,               \* the elements of the Vec, buffer.len() of them
    capacity,             \* buffer.capacity()
    cursor,
    request,              \* the parsed frame being served: (request, n_parsed_bytes)
    response,             \* the response about to be sent
    pc,                   \* where the loop is: parse, apply, send, check, read, done
    result,               \* what handle_connection returned, or how it ended
    \* the store shared by the connections
    db,
    \* the stream of the connection
    stream,               \* bytes the peer has written and the server has not read
    peer_closed,          \* the peer has closed its writing side
    written,              \* every byte the server has written, in order
    \* history
    input_frames,         \* the frames the peer set out to send
    input_cut,            \* the bytes it dropped from the end
    parsed,               \* the requests parsed so far, in order
    written_at_parse,     \* Len(written) when each of them was parsed
    \* the client at the other end of the connection
    client_calls,         \* the calls its program makes, in order
    client_pc,            \* "idle", "call", "receive", "done", "dropped"
    client_max_buffer_size,
    client_buffer,        \* receive_response's buffer
    client_capacity,      \* its capacity
    client_results,       \* what the calls made so far returned
    client_consumed,      \* how many bytes of written the client has read
    client_short_read,    \* a read of the client returned fewer bytes than it could
    \* the Mutex of the DB and the threads that use the DB directly
    mutex,                \* [owner: the thread holding the guard or 0, poisoned]
    lock_order,           \* the operations in the order they acquired the lock
    threads,              \* per thread: the operation in progress, pc, results
    direct,               \* the thread that locks the Mutex itself, through Deref
    \* the Server, its workers and the peers connected to it
    server,               \* the Server: its listener and its buffer sizes
    workers,              \* per connection: the handle_connection thread spawned for it
    peers,                \* per connection: the client at the other end
    \* the ServerBuilder
    builder               \* its options, and what build made of them

codec_vars == << codec_stage, codec_kind, codec_value, codec_bytes, codec_result >>

conn_vars ==
    << initial_buffer_size, max_buffer_size, buffer, capacity, cursor, request,
       response, pc, result, db, stream, peer_closed, written, input_frames,
       input_cut, parsed, written_at_parse >>

client_vars ==
    << client_calls, client_pc, client_max_buffer_size, client_buffer,
       client_capacity, client_results, client_consumed, client_short_read >>

store_vars == << mutex, lock_order, threads, direct >>

\* the state of the programs of several threads
server_vars == << server, workers, peers >>

builder_vars == << builder >>

multi_vars == << store_vars, server_vars, builder_vars >>

vars == << codec_vars, conn_vars, client_vars, multi_vars >>

NoRequest == Incomplete

(***************************************************************************)
(* handle_connection (server.rs:182-251), one action per step of its loop. *)
(***************************************************************************)
\* let mut buffer = vec![0; initial_buffer_size.0]; let mut cursor = 0;
ConnectionStart(init_size, max_size) ==
    /\ initial_buffer_size = init_size
    /\ max_buffer_size = max_size
    /\ buffer = Zeros(init_size)
    /\ capacity = init_size
    /\ cursor = 0
    /\ request = NoRequest
    /\ response = FlushResponse
    /\ pc = "parse"
    /\ result = "Running"
    /\ written = << >>
    /\ parsed = << >>
    /\ written_at_parse = << >>

Return(r) ==
    /\ pc' = "done"
    /\ result' = r

\* parse_request(&buffer[0..cursor]).unwrap()
ParseRequest ==
    /\ pc = "parse"
    /\ LET p == parse_request(Slice(buffer, 0, cursor)) IN
        CASE p.res = "Err" ->
                /\ Return("PanicParse")
                /\ UNCHANGED << request, parsed, written_at_parse >>
          [] p.res = "Some" ->
                /\ request' = p
                /\ parsed' = Append(parsed, p.request)
                /\ written_at_parse' = Append(written_at_parse, Len(written))
                /\ pc' = "apply"
                /\ UNCHANGED result
          [] p.res = "None" ->
                /\ pc' = "check"
                /\ UNCHANGED << result, request, parsed, written_at_parse >>
    /\ UNCHANGED << initial_buffer_size, max_buffer_size, buffer, capacity, cursor,
                    response, db, stream, peer_closed, written, input_frames,
                    input_cut, codec_vars, client_vars >>
    /\ UNCHANGED multi_vars

\* a match that answers without touching the store
apply_request_unapplied(map, req) ==
    CASE req.op = "Get" -> [db |-> map, response |-> GetResponse(db_get(map, req.key))]
      [] req.op = "Set" -> [db |-> map, response |-> SetResponse]
      [] req.op = "Delete" -> [db |-> map, response |-> DeleteResponse]
      [] req.op = "Flush" -> [db |-> map, response |-> FlushResponse]

\* the response of the match on the request, and the store after it
apply_request(map, req) ==
    CASE req.op = "Get" -> [db |-> map, response |-> GetResponse(db_get(map, req.key))]
      [] req.op = "Set" -> [db |-> db_insert(map, req.key, req.value), response |-> SetResponse]
      [] req.op = "Delete" -> [db |-> db_remove(map, req.key), response |-> DeleteResponse]
      [] req.op = "Flush" -> [db |-> db_clear(map), response |-> FlushResponse]

\* let response = match request { ... };
ApplyRequest ==
    /\ pc = "apply"
    /\ LET a == apply_request(db, request.request) IN
        /\ db' = a.db
        /\ response' = a.response
    /\ pc' = "send"
    /\ UNCHANGED << initial_buffer_size, max_buffer_size, buffer, capacity, cursor,
                    request, result, stream, peer_closed, written, input_frames,
                    input_cut, parsed, written_at_parse, codec_vars, client_vars >>
    /\ UNCHANGED multi_vars

\* the cursor after the frame is dropped from the front of the buffer
cursor_after(cur, n_parsed_bytes) ==
    IF n_parsed_bytes <= cur THEN cur - n_parsed_bytes ELSE cur

\* the buffer after the frame is dropped from its front
buffer_after(buf, cur, n_parsed_bytes) ==
    IF n_parsed_bytes <= cur THEN copy_within(buf, n_parsed_bytes, cur) ELSE buf

\* send_response returns Ok without having written the response
SendResponseUnwritten ==
    /\ pc = "send"
    /\ buffer' = buffer_after(buffer, cursor, request.n)
    /\ cursor' = cursor_after(cursor, request.n)
    /\ pc' = "parse"
    /\ UNCHANGED << initial_buffer_size, max_buffer_size, capacity, request,
                    response, result, db, stream, peer_closed, written,
                    input_frames, input_cut, parsed, written_at_parse, codec_vars,
                    client_vars >>
    /\ UNCHANGED multi_vars

\* a send_response after which the loop goes on to the read without parsing
\* the rest of the buffer
SendResponseThenRead ==
    /\ pc = "send"
    /\ written' = written \o serialize_response(response)
    /\ buffer' = buffer_after(buffer, cursor, request.n)
    /\ cursor' = cursor_after(cursor, request.n)
    /\ pc' = "check"
    /\ UNCHANGED << initial_buffer_size, max_buffer_size, capacity, request,
                    response, result, db, stream, peer_closed, input_frames,
                    input_cut, parsed, written_at_parse, codec_vars, client_vars >>
    /\ UNCHANGED multi_vars

\* send_response(stream, response) succeeds; the rest of the frame moves up
SendResponse ==
    /\ pc = "send"
    /\ written' = written \o serialize_response(response)
    /\ buffer' = buffer_after(buffer, cursor, request.n)
    /\ cursor' = cursor_after(cursor, request.n)
    /\ pc' = "parse"
    /\ UNCHANGED << initial_buffer_size, max_buffer_size, capacity, request,
                    response, result, db, stream, peer_closed, input_frames,
                    input_cut, parsed, written_at_parse, codec_vars, client_vars >>
    /\ UNCHANGED multi_vars

\* send_response fails: write_all stopped after fewer than all the bytes
SendResponseFails ==
    /\ pc = "send"
    /\ LET bytes == serialize_response(response) IN
        \E k \in 0..(Len(bytes) - 1) : written' = written \o SubSeq(bytes, 1, k)
    /\ Return("IO")
    /\ UNCHANGED << initial_buffer_size, max_buffer_size, buffer, capacity, cursor,
                    request, response, db, stream, peer_closed, input_frames,
                    input_cut, parsed, written_at_parse, codec_vars, client_vars >>
    /\ UNCHANGED multi_vars

\* if buffer.len() >= max_buffer_size.0 { return Err(TooMuchData) }
buffer_is_full(buf, max_size) == Len(buf) >= max_size

\* if buffer.len() == cursor { buffer.resize(buffer.capacity() * 2, 0) }
grown(buf, cap, cur) ==
    IF Len(buf) = cur THEN vec_resize(buf, cap, cap * 2) ELSE [vec |-> buf, cap |-> cap]

CheckBuffer ==
    /\ pc = "check"
    /\ IF buffer_is_full(buffer, max_buffer_size)
       THEN /\ Return("TooMuchData")
            /\ UNCHANGED << buffer, capacity >>
       ELSE /\ buffer' = grown(buffer, capacity, cursor).vec
            /\ capacity' = grown(buffer, capacity, cursor).cap
            /\ pc' = "read"
            /\ UNCHANGED result
    /\ UNCHANGED << initial_buffer_size, max_buffer_size, cursor, request, response,
                    db, stream, peer_closed, written, input_frames, input_cut,
                    parsed, written_at_parse, codec_vars, client_vars >>
    /\ UNCHANGED multi_vars

\* a slice expression that is not checked against the length
slice_unchecked(buf, cap, cur) == TRUE

\* &mut buffer[cursor..read_end] with read_end = buffer.capacity() is a slice
slice_in_range(buf, cap, cur) == cur <= cap /\ cap <= Len(buf)

\* the slice expression panics: the capacity is past the length
ReadSlicePanics ==
    /\ pc = "read"
    /\ ~slice_in_range(buffer, capacity, cursor)
    /\ Return("PanicSlice")
    /\ UNCHANGED << initial_buffer_size, max_buffer_size, buffer, capacity, cursor,
                    request, response, db, stream, peer_closed, written,
                    input_frames, input_cut, parsed, written_at_parse, codec_vars, client_vars >>
    /\ UNCHANGED multi_vars

\* stream.read returns n > 0 bytes: cursor += n_bytes_read
ReadBytes ==
    /\ pc = "read"
    /\ slice_in_range(buffer, capacity, cursor)
    /\ \E n \in 1..Min(Len(stream), capacity - cursor) :
        /\ buffer' = read_into(buffer, cursor, SubSeq(stream, 1, n))
        /\ stream' = SubSeq(stream, n + 1, Len(stream))
        /\ cursor' = cursor + n
    /\ pc' = "parse"
    /\ UNCHANGED << initial_buffer_size, max_buffer_size, capacity, request,
                    response, result, db, peer_closed, written, input_frames,
                    input_cut, parsed, written_at_parse, codec_vars, client_vars >>
    /\ UNCHANGED multi_vars

\* a zero read that is taken for a clean close whatever is buffered
on_zero_read_clean(cur) == "Ok"

\* what handle_connection returns when the read returned 0
on_zero_read(cur) == IF cur = 0 THEN "Ok" ELSE "ConnectionResetByPeer"

\* stream.read returns 0: the peer has closed, or the slice is empty
ReadZero ==
    /\ pc = "read"
    /\ slice_in_range(buffer, capacity, cursor)
    /\ \/ capacity - cursor = 0
       \/ stream = << >> /\ peer_closed
    /\ Return(on_zero_read(cursor))
    /\ UNCHANGED << initial_buffer_size, max_buffer_size, buffer, capacity, cursor,
                    request, response, db, stream, peer_closed, written,
                    input_frames, input_cut, parsed, written_at_parse, codec_vars, client_vars >>
    /\ UNCHANGED multi_vars

\* stream.read returns an error: .unwrap() panics
ReadFails ==
    /\ pc = "read"
    /\ slice_in_range(buffer, capacity, cursor)
    /\ Return("PanicRead")
    /\ UNCHANGED << initial_buffer_size, max_buffer_size, buffer, capacity, cursor,
                    request, response, db, stream, peer_closed, written,
                    input_frames, input_cut, parsed, written_at_parse, codec_vars, client_vars >>
    /\ UNCHANGED multi_vars

(***************************************************************************)
(* The specification of one server connection: a peer that writes a        *)
(* sequence of frames, possibly cut short, and closes; the transport hands *)
(* the bytes to the server's reads in chunks of any size.                  *)
(***************************************************************************)
SeqsUpTo(S, n) == UNION { [1..k -> S] : k \in 0..n }

RECURSIVE Concat(_)
Concat(frames) ==
    IF frames = << >> THEN << >> ELSE Head(frames) \o Concat(Tail(frames))

\* (initial_buffer_size, max_buffer_size) of the modelled servers
BufferConfigs ==
    { <<0, 16>>, <<2, 16>>, <<4, 6>>, <<8, 9>>, <<8, 12>>, <<8, 32>>, <<16, 16>>,
      <<16, 32>> }

\* the requests the peer of a server connection sends
ConnRequests ==
    { GetRequest(<<97>>), SetRequest(<<97>>, <<98>>), DeleteRequest(<<97>>),
      FlushRequest, SetRequest(<<97>>, << >>) }

\* a GET frame whose key is not UTF-8
BadUtf8Frame == <<1, 0, 0, 0, 1, 255>>

ConnFrames == { serialize_request(r) : r \in ConnRequests } \union { BadUtf8Frame }

\* the threads that call the Database trait of one DB
StoreThreads == { "t1", "t2" }

\* the Mutex with no guard out and not poisoned
Unlocked == [owner |-> "none", poisoned |-> FALSE]

\* the connections of the modelled server
ConnIds == { "c1", "c2" }

\* no server
ServerIdle ==
    /\ server = [listener |-> "none", accept_error_logged |-> FALSE,
                 initial_buffer_size |-> 0, max_buffer_size |-> 0]
    /\ workers = [c \in ConnIds |-> [pc |-> "none"]]
    /\ peers = [c \in ConnIds |-> [pc |-> "none"]]

\* no ServerBuilder
BuilderIdle == builder = [state |-> "none"]

\* no thread uses the DB
StoreIdle ==
    /\ mutex = Unlocked
    /\ lock_order = << >>
    /\ threads = [t \in StoreThreads |-> [pc |-> "idle", op |-> FlushRequest, results |-> << >>]]
    /\ direct = "out"

CodecIdle ==
    /\ codec_stage = "idle"
    /\ codec_kind = "request"
    /\ codec_value = FlushRequest
    /\ codec_bytes = << >>
    /\ codec_result = Incomplete

ClientIdle ==
    /\ client_calls = << >>
    /\ client_pc = "idle"
    /\ client_max_buffer_size = 0
    /\ client_buffer = << >>
    /\ client_capacity = 0
    /\ client_results = << >>
    /\ client_consumed = 0
    /\ client_short_read = FALSE

Init ==
    /\ CodecIdle
    /\ StoreIdle
    /\ ServerIdle
    /\ BuilderIdle
    /\ ClientIdle
    /\ \E cfg \in BufferConfigs : ConnectionStart(cfg[1], cfg[2])
    /\ db = EmptyMap
    /\ input_frames \in SeqsUpTo(ConnFrames, MaxFrames)
    /\ input_cut \in 0..MaxCut
    /\ input_cut <= Len(Concat(input_frames))
    /\ stream = SubSeq(Concat(input_frames), 1, Len(Concat(input_frames)) - input_cut)
    /\ peer_closed = TRUE

Next ==
    \/ ParseRequest
    \/ ApplyRequest
    \/ SendResponse
    \/ SendResponseFails
    \/ CheckBuffer
    \/ ReadSlicePanics
    \/ ReadBytes
    \/ ReadZero
    \/ ReadFails

Spec == Init /\ [][Next]_vars

\* a byte that is no opcode, put between the frames of a peer
NoOpcodeFrames == { <<0>>, <<5>> }

\* a connection whose peer writes frames and, somewhere, a byte that is no opcode
InitNoOpcode ==
    /\ CodecIdle
    /\ StoreIdle
    /\ ServerIdle
    /\ BuilderIdle
    /\ ClientIdle
    /\ \E cfg \in BufferConfigs : ConnectionStart(cfg[1], cfg[2])
    /\ db = EmptyMap
    /\ input_frames \in SeqsUpTo(ConnFrames \union NoOpcodeFrames, MaxFrames)
    /\ \E i \in 1..Len(input_frames) : input_frames[i] \in NoOpcodeFrames
    /\ input_cut \in 0..MaxCut
    /\ input_cut <= Len(Concat(input_frames))
    /\ stream = SubSeq(Concat(input_frames), 1, Len(Concat(input_frames)) - input_cut)
    /\ peer_closed = TRUE

SpecNoOpcode == InitNoOpcode /\ [][Next]_vars

\* the sizes of the servers whose runs are followed to their end: one whose
\* buffer starts below Vec's smallest allocation, and one of ordinary sizes
LiveConfigs == { <<2, 16>>, <<8, 12>> }

InitLive == Init /\ << initial_buffer_size, max_buffer_size >> \in LiveConfigs

\* the thread of handle_connection keeps running: a step that can be taken
\* is taken
SpecLive == InitLive /\ [][Next]_vars /\ WF_vars(Next)

(***************************************************************************)
(* The specification of the codec round trips: a value allowed by the data *)
(* model is serialized and the bytes are parsed.                           *)
(***************************************************************************)
\* bytes of the strings: NUL, 'a', and the two bytes of U+00E9
CodecBytes == { 0, 97, 195, 169 }

\* the UTF-8 strings of at most MaxStrLen bytes
CodecStrings == { s \in SeqsUpTo(CodecBytes, MaxStrLen) : from_utf8_ok(s) }

\* Get{key}: key is a non-empty UTF-8 string; Set{key, value}, Delete{key}: any
CodecRequests ==
    { GetRequest(k) : k \in CodecStrings \ { NoStr } }
    \union { SetRequest(k, v) : k \in CodecStrings, v \in CodecStrings }
    \union { DeleteRequest(k) : k \in CodecStrings }
    \union { FlushRequest }

CodecResponses ==
    { GetResponse(None) } \union { GetResponse(Some(v)) : v \in CodecStrings }
    \union { SetResponse, DeleteResponse, FlushResponse }

ConnIdle ==
    /\ initial_buffer_size = 0
    /\ max_buffer_size = 0
    /\ buffer = << >>
    /\ capacity = 0
    /\ cursor = 0
    /\ request = NoRequest
    /\ response = FlushResponse
    /\ pc = "idle"
    /\ result = "Running"
    /\ written = << >>
    /\ parsed = << >>
    /\ written_at_parse = << >>
    /\ db = EmptyMap
    /\ input_frames = << >>
    /\ input_cut = 0
    /\ stream = << >>
    /\ peer_closed = TRUE

InitCodec ==
    /\ ConnIdle
    /\ StoreIdle
    /\ ServerIdle
    /\ BuilderIdle
    /\ ClientIdle
    /\ codec_stage = "value"
    /\ \/ codec_kind = "request" /\ codec_value \in CodecRequests
       \/ codec_kind = "response" /\ codec_value \in CodecResponses
    /\ codec_bytes = << >>
    /\ codec_result = Incomplete

SerializeRequest ==
    /\ codec_stage = "value"
    /\ codec_kind = "request"
    /\ codec_bytes' = serialize_request(codec_value)
    /\ codec_stage' = "bytes"
    /\ UNCHANGED << codec_kind, codec_value, codec_result, conn_vars, client_vars >>
    /\ UNCHANGED multi_vars

ParseRequestBytes ==
    /\ codec_stage = "bytes"
    /\ codec_kind = "request"
    /\ codec_result' = parse_request(codec_bytes)
    /\ codec_stage' = "parsed"
    /\ UNCHANGED << codec_kind, codec_value, codec_bytes, conn_vars, client_vars >>
    /\ UNCHANGED multi_vars

SerializeResponse ==
    /\ codec_stage = "value"
    /\ codec_kind = "response"
    /\ codec_bytes' = serialize_response(codec_value)
    /\ codec_stage' = "bytes"
    /\ UNCHANGED << codec_kind, codec_value, codec_result, conn_vars, client_vars >>
    /\ UNCHANGED multi_vars

ParseResponseBytes ==
    /\ codec_stage = "bytes"
    /\ codec_kind = "response"
    /\ codec_result' = parse_response(codec_bytes)
    /\ codec_stage' = "parsed"
    /\ UNCHANGED << codec_kind, codec_value, codec_bytes, conn_vars, client_vars >>
    /\ UNCHANGED multi_vars

NextCodec ==
    \/ SerializeRequest
    \/ ParseRequestBytes
    \/ SerializeResponse
    \/ ParseResponseBytes

SpecCodec == InitCodec /\ [][NextCodec]_vars

(***************************************************************************)
(* The client (client.rs).  A call writes its request and runs             *)
(* receive_response with a fresh buffer of init_buffer_size bytes.  The    *)
(* source fixes init_buffer_size at 4096 and the default max_buffer_size   *)
(* at 1 MiB; the model scales both down and keeps their order.             *)
(***************************************************************************)
\* Client.init_buffer_size, scaled down
ClientInitBufferSize == 8

\* Client.max_buffer_size of the modelled clients, scaled down
ClientMaxBufferSizes == { 8 * ClientInitBufferSize }

\* Ok(response) and Err(error) of a call
Ok(r) == [res |-> "Ok", response |-> r]

Err(e) == [res |-> e, response |-> FlushResponse]

\* the bytes the server has written and the client has not read
unread == SubSeq(written, client_consumed + 1, Len(written))

\* the server's end of the connection is closed: handle_connection is over
server_closed == pc = "done"

\* Client::get / set / delete / flush up to receive_response: send_request,
\* then let mut buffer = vec![0; init_buffer_size]
ClientCall ==
    /\ client_pc = "call"
    /\ stream' = stream \o serialize_request(client_calls[Len(client_results) + 1])
    /\ client_buffer' = Zeros(ClientInitBufferSize)
    /\ client_capacity' = ClientInitBufferSize
    /\ client_pc' = "receive"
    /\ UNCHANGED << client_calls, client_max_buffer_size, client_results,
                    client_consumed, client_short_read >>
    /\ UNCHANGED << initial_buffer_size, max_buffer_size, buffer, capacity, cursor,
                    request, response, pc, result, db, peer_closed, written,
                    input_frames, input_cut, parsed, written_at_parse, codec_vars >>
    /\ UNCHANGED multi_vars

\* send_request's write_all(..).unwrap() fails on a connection the server closed
ClientCallPanics ==
    /\ client_pc = "call"
    /\ server_closed
    /\ client_pc' = "dropped"
    /\ client_results' = Append(client_results, Err("PanicWrite"))
    /\ peer_closed' = TRUE
    /\ UNCHANGED << client_calls, client_max_buffer_size, client_buffer,
                    client_capacity, client_consumed, client_short_read >>
    /\ UNCHANGED << initial_buffer_size, max_buffer_size, buffer, capacity, cursor,
                    request, response, pc, result, db, stream, written,
                    input_frames, input_cut, parsed, written_at_parse, codec_vars >>
    /\ UNCHANGED multi_vars

\* if buffer.len() == buffer.capacity() { buffer.resize(buffer.capacity() * 2, 0) }
client_grown(buf, cap) ==
    IF Len(buf) = cap THEN vec_resize(buf, cap, cap * 2) ELSE [vec |-> buf, cap |-> cap]

\* One turn of receive_response's loop after stream.read(&mut buffer) returned
\* the bytes of chunk: the value returned, or "Again" with the buffer to go on with.
receive_turn(buf, cap, max_size, chunk) ==
    LET filled == read_into(buf, 0, chunk)
        p == parse_response(filled)
        g == client_grown(filled, cap)
    IN  IF p.res = "Err" THEN [ret |-> Err("Parsing"), vec |-> filled, cap |-> cap]
        ELSE IF p.res = "Some" THEN [ret |-> Ok(p.response), vec |-> filled, cap |-> cap]
        ELSE IF Len(chunk) = 0
        THEN [ret |-> Err("ConnectionResetByPeer"), vec |-> filled, cap |-> cap]
        ELSE IF Len(g.vec) >= max_size
        THEN [ret |-> Err("TooMuchData"), vec |-> g.vec, cap |-> g.cap]
        ELSE [ret |-> Err("Again"), vec |-> g.vec, cap |-> g.cap]

\* the client after a turn of the loop
ClientTurn(t) ==
    /\ client_buffer' = t.vec
    /\ client_capacity' = t.cap
    /\ IF t.ret.res = "Again"
       THEN UNCHANGED << client_results, client_pc >>
       ELSE /\ client_results' = Append(client_results, t.ret)
            /\ client_pc' = IF Len(client_results) + 1 < Len(client_calls)
                            THEN "call" ELSE "done"

\* receive_response: stream.read(&mut buffer) returns n > 0 bytes
ClientReadBytes ==
    /\ client_pc = "receive"
    /\ \E n \in 1..Min(Len(unread), Len(client_buffer)) :
        /\ ClientTurn(receive_turn(client_buffer, client_capacity,
                                   client_max_buffer_size, SubSeq(unread, 1, n)))
        /\ client_consumed' = client_consumed + n
        /\ client_short_read' =
              (client_short_read \/ n < Min(Len(unread), Len(client_buffer)))
    /\ UNCHANGED << client_calls, client_max_buffer_size, conn_vars, codec_vars >>
    /\ UNCHANGED multi_vars

\* receive_response: stream.read(&mut buffer) returns 0, the server having closed
ClientReadZero ==
    /\ client_pc = "receive"
    /\ unread = << >>
    /\ server_closed
    /\ ClientTurn(receive_turn(client_buffer, client_capacity,
                               client_max_buffer_size, << >>))
    /\ UNCHANGED << client_calls, client_max_buffer_size, client_consumed,
                    client_short_read, conn_vars, codec_vars >>
    /\ UNCHANGED multi_vars

\* receive_response: stream.read(&mut buffer)? fails on a closed connection
ClientReadFails ==
    /\ client_pc = "receive"
    /\ server_closed
    /\ ClientTurn([ret |-> Err("IO"), vec |-> client_buffer, cap |-> client_capacity])
    /\ UNCHANGED << client_calls, client_max_buffer_size, client_consumed,
                    client_short_read, conn_vars, codec_vars >>
    /\ UNCHANGED multi_vars

\* the Client is dropped after its last call: its stream closes
ClientDrop ==
    /\ client_pc = "done"
    /\ client_pc' = "dropped"
    /\ peer_closed' = TRUE
    /\ UNCHANGED << client_calls, client_max_buffer_size, client_buffer,
                    client_capacity, client_results, client_consumed,
                    client_short_read >>
    /\ UNCHANGED << initial_buffer_size, max_buffer_size, buffer, capacity, cursor,
                    request, response, pc, result, db, stream, written,
                    input_frames, input_cut, parsed, written_at_parse, codec_vars >>
    /\ UNCHANGED multi_vars

(***************************************************************************)
(* The specification of a client and a server on one connection.           *)
(***************************************************************************)
\* (initial_buffer_size, max_buffer_size) of the servers the clients talk to
ClientServerConfigs == { <<16, 32>>, <<32, 64>> }

ClientKeys == { <<97>> }

\* a value of one byte, and one whose GET response (5 bytes and the value) is
\* one byte longer than the client's initial buffer
ClientValues == { <<98>>, [i \in 1..(ClientInitBufferSize - 4) |-> 98 + i] }

\* the programs of the modelled clients: set(k, v) and then get(k), and
\* set(k, v), delete(k) and then get(k)
ClientPrograms ==
    { << SetRequest(k, v), GetRequest(k) >> : k \in ClientKeys, v \in ClientValues }
    \union { << SetRequest(k, v), DeleteRequest(k), GetRequest(k) >> :
                 k \in ClientKeys, v \in ClientValues }

InitClient ==
    /\ CodecIdle
    /\ StoreIdle
    /\ ServerIdle
    /\ BuilderIdle
    /\ \E cfg \in ClientServerConfigs : ConnectionStart(cfg[1], cfg[2])
    /\ db = EmptyMap
    /\ input_frames = << >>
    /\ input_cut = 0
    /\ stream = << >>
    /\ peer_closed = FALSE
    /\ client_calls \in ClientPrograms
    /\ client_pc = "call"
    /\ client_max_buffer_size \in ClientMaxBufferSizes
    /\ client_buffer = << >>
    /\ client_capacity = 0
    /\ client_results = << >>
    /\ client_consumed = 0
    /\ client_short_read = FALSE

NextClient ==
    \/ ClientCall
    \/ ClientCallPanics
    \/ ClientReadBytes
    \/ ClientReadZero
    \/ ClientReadFails
    \/ ClientDrop
    \/ ParseRequest
    \/ ApplyRequest
    \/ SendResponse
    \/ SendResponseFails
    \/ CheckBuffer
    \/ ReadBytes
    \/ ReadZero
    \/ ReadFails

SpecClient == InitClient /\ [][NextClient]_vars

(***************************************************************************)
(* receive_response on any stream (client.rs:101-124).  The function takes *)
(* any Read: here the stream holds bytes of any content, handed over in    *)
(* reads of any size, and then ends.                                       *)
(***************************************************************************)
\* the longest stream of arbitrary bytes
MaxGarbage == 3

\* the bytes of those streams: no opcode, the opcodes of Get and Set, no opcode
GarbageBytes == { 0, 1, 2, 5 }

\* the responses whose encodings, whole or cut short, the other streams hold
ReceiveResponses ==
    { GetResponse(None), GetResponse(Some(<<98>>)), GetResponse(Some(<<98, 99>>)),
      SetResponse }

Prefixes(s) == { SubSeq(s, 1, n) : n \in 0..Len(s) }

ReceiveStreams ==
    SeqsUpTo(GarbageBytes, MaxGarbage)
    \union UNION { Prefixes(serialize_response(r)) : r \in ReceiveResponses }

\* max_buffer_size as given to Client::connect_with_max_buffer_size, scaled down
\* like ClientInitBufferSize: a multiple of the initial size, and not one
ReceiveMaxBufferSizes == { 8 * ClientInitBufferSize, 2 * ClientInitBufferSize + 4 }

InitReceive ==
    /\ CodecIdle
    /\ StoreIdle
    /\ ServerIdle
    /\ BuilderIdle
    /\ initial_buffer_size = 0
    /\ max_buffer_size = 0
    /\ buffer = << >>
    /\ capacity = 0
    /\ cursor = 0
    /\ request = NoRequest
    /\ response = FlushResponse
    /\ pc = "done"
    /\ result = "Ok"
    /\ written \in ReceiveStreams
    /\ parsed = << >>
    /\ written_at_parse = << >>
    /\ db = EmptyMap
    /\ input_frames = << >>
    /\ input_cut = 0
    /\ stream = << >>
    /\ peer_closed = FALSE
    /\ client_calls = << GetRequest(<<97>>) >>
    /\ client_pc = "receive"
    /\ client_max_buffer_size \in ReceiveMaxBufferSizes
    /\ client_buffer = Zeros(ClientInitBufferSize)
    /\ client_capacity = ClientInitBufferSize
    /\ client_results = << >>
    /\ client_consumed = 0
    /\ client_short_read = FALSE

NextReceive ==
    \/ ClientReadBytes
    \/ ClientReadZero
    \/ ClientReadFails
    \/ ClientDrop

SpecReceive == InitReceive /\ [][NextReceive]_vars

(***************************************************************************)
(* The DB used by several threads (db.rs).  Every operation of the         *)
(* Database trait locks the Mutex, waits while another thread holds the    *)
(* guard, works on the map and drops the guard when it returns.  DB also   *)
(* derefs to the Mutex, so a thread can hold the guard itself, as the      *)
(* tests do, and can panic while it holds it: that poisons the Mutex.      *)
(***************************************************************************)
\* the number of calls the first thread makes at most; the second makes one
MaxOps == 3

StoreQuota(t) == IF t = "t1" THEN MaxOps ELSE 1

\* the calls: get, insert, remove and clear, written as the requests they serve
StoreOps ==
    { GetRequest(<<97>>), SetRequest(<<97>>, <<98>>), SetRequest(<<97>>, <<99>>),
      SetRequest(<<100>>, <<98>>), DeleteRequest(<<97>>), FlushRequest }

\* the binding the thread holding the guard itself inserts
DirectOp == SetRequest(<<100>>, <<101>>)

\* Ok(value) and Err(ServerError::Database(DatabaseError::DbLock)) of a call
DbOk(v) == [res |-> "Ok", value |-> v]

DbErr == [res |-> "DbLock", value |-> None]

\* the body of a Database operation under the guard: the map after it and
\* the value returned
db_call(map, op) ==
    CASE op.op = "Get" -> [db |-> map, ret |-> db_get(map, op.key)]
      [] op.op = "Set" -> [db |-> db_insert(map, op.key, op.value), ret |-> None]
      [] op.op = "Delete" -> [db |-> db_remove(map, op.key), ret |-> None]
      [] op.op = "Flush" -> [db |-> db_clear(map), ret |-> None]

conn_vars_but_db ==
    << initial_buffer_size, max_buffer_size, buffer, capacity, cursor, request,
       response, pc, result, stream, peer_closed, written, input_frames,
       input_cut, parsed, written_at_parse >>

\* a thread calls get, insert, remove or clear
StoreCall(t) ==
    /\ threads[t].pc = "idle"
    /\ Len(threads[t].results) < StoreQuota(t)
    /\ \E op \in StoreOps : threads' = [threads EXCEPT ![t].pc = "lock", ![t].op = op]
    /\ UNCHANGED << mutex, lock_order, direct, db, conn_vars_but_db, codec_vars,
                    client_vars >>
    /\ UNCHANGED << server_vars, builder_vars >>

\* a lock that does not wait for the guard to be dropped
DbLockShared(t) ==
    /\ threads[t].pc = "lock"
    /\ ~mutex.poisoned
    /\ mutex' = [mutex EXCEPT !.owner = t]
    /\ lock_order' = Append(lock_order,
            [thread |-> t, idx |-> Len(threads[t].results) + 1, op |-> threads[t].op])
    /\ threads' = [threads EXCEPT ![t].pc = "locked"]
    /\ UNCHANGED << direct, db, conn_vars_but_db, codec_vars, client_vars >>
    /\ UNCHANGED << server_vars, builder_vars >>

\* self.0.lock() returns the guard: no other thread holds it
DbLock(t) ==
    /\ threads[t].pc = "lock"
    /\ mutex.owner = "none"
    /\ ~mutex.poisoned
    /\ mutex' = [mutex EXCEPT !.owner = t]
    /\ lock_order' = Append(lock_order,
            [thread |-> t, idx |-> Len(threads[t].results) + 1, op |-> threads[t].op])
    /\ threads' = [threads EXCEPT ![t].pc = "locked"]
    /\ UNCHANGED << direct, db, conn_vars_but_db, codec_vars, client_vars >>
    /\ UNCHANGED << server_vars, builder_vars >>

\* a lock that gives up when the guard is held: try_lock
DbLockBusy(t) ==
    /\ threads[t].pc = "lock"
    /\ mutex.owner # "none" \/ mutex.poisoned
    /\ threads' = [threads EXCEPT ![t].pc = "idle", ![t].results = Append(@, DbErr)]
    /\ UNCHANGED << mutex, lock_order, direct, db, conn_vars_but_db, codec_vars,
                    client_vars >>
    /\ UNCHANGED << server_vars, builder_vars >>

\* self.0.lock() returns Err(PoisonError): map_err drops the guard, ? returns DbLock
DbLockPoisoned(t) ==
    /\ threads[t].pc = "lock"
    /\ mutex.owner = "none"
    /\ mutex.poisoned
    /\ threads' = [threads EXCEPT ![t].pc = "idle", ![t].results = Append(@, DbErr)]
    /\ UNCHANGED << mutex, lock_order, direct, db, conn_vars_but_db, codec_vars,
                    client_vars >>
    /\ UNCHANGED << server_vars, builder_vars >>

\* the operation on the map, and the return that drops the guard
DbApply(t) ==
    /\ threads[t].pc = "locked"
    /\ LET c == db_call(db, threads[t].op) IN
        /\ db' = c.db
        /\ threads' = [threads EXCEPT ![t].pc = "idle",
                                      ![t].results = Append(@, DbOk(c.ret))]
    /\ mutex' = [mutex EXCEPT !.owner = "none"]
    /\ UNCHANGED << lock_order, direct, conn_vars_but_db, codec_vars, client_vars >>
    /\ UNCHANGED << server_vars, builder_vars >>

\* db.lock().unwrap() through Deref: the thread holds the guard itself
DirectLock ==
    /\ direct = "out"
    /\ mutex.owner = "none"
    /\ ~mutex.poisoned
    /\ mutex' = [mutex EXCEPT !.owner = "direct"]
    /\ direct' = "holding"
    /\ UNCHANGED << lock_order, threads, db, conn_vars_but_db, codec_vars, client_vars >>
    /\ UNCHANGED << server_vars, builder_vars >>

\* lock.insert(key, value) on the guard
DirectInsert ==
    /\ direct = "holding"
    /\ db' = db_insert(db, DirectOp.key, DirectOp.value)
    /\ lock_order' = Append(lock_order, [thread |-> "direct", idx |-> 1, op |-> DirectOp])
    /\ direct' = "wrote"
    /\ UNCHANGED << mutex, threads, conn_vars_but_db, codec_vars, client_vars >>
    /\ UNCHANGED << server_vars, builder_vars >>

\* drop(lock)
DirectDrop ==
    /\ direct \in {"holding", "wrote"}
    /\ mutex' = [mutex EXCEPT !.owner = "none"]
    /\ direct' = "dropped"
    /\ UNCHANGED << lock_order, threads, db, conn_vars_but_db, codec_vars, client_vars >>
    /\ UNCHANGED << server_vars, builder_vars >>

\* the thread panics while it holds the guard: the guard is dropped in the
\* unwinding and the Mutex is poisoned
DirectPanic ==
    /\ direct \in {"holding", "wrote"}
    /\ mutex' = [owner |-> "none", poisoned |-> TRUE]
    /\ direct' = "panicked"
    /\ UNCHANGED << lock_order, threads, db, conn_vars_but_db, codec_vars, client_vars >>
    /\ UNCHANGED << server_vars, builder_vars >>

InitStore ==
    /\ CodecIdle
    /\ ServerIdle
    /\ BuilderIdle
    /\ ClientIdle
    /\ ConnIdle
    /\ StoreIdle

NextStore ==
    \/ \E t \in StoreThreads : StoreCall(t)
    \/ \E t \in StoreThreads : DbLock(t)
    \/ \E t \in StoreThreads : DbLockPoisoned(t)
    \/ \E t \in StoreThreads : DbApply(t)
    \/ DirectLock
    \/ DirectInsert
    \/ DirectDrop
    \/ DirectPanic

SpecStore == InitStore /\ [][NextStore]_vars

(***************************************************************************)
(* The Server (server.rs): Server::run accepts connections and spawns one  *)
(* thread per connection, which runs handle_connection on a clone of the   *)
(* DB; each peer is a Client, or a program that writes bytes and closes.   *)
(* The steps of a worker are the steps of handle_connection above, with    *)
(* the DB operation split where it takes the Mutex.  Every read returns    *)
(* all the bytes that have arrived and fit; the chunking of reads is the   *)
(* subject of the specifications of one connection.                        *)
(***************************************************************************)
\* what the server's actions leave alone
rest_vars ==
    << codec_vars, client_vars, conn_vars_but_db, threads, direct, builder_vars >>

\* some worker has ended otherwise than by returning Ok
some_worker_failed ==
    \E d \in ConnIds : workers[d].pc = "done" /\ workers[d].result # "Ok"

\* a worker ends: handle_connection returns r, or panics
WorkerReturn(c, r) == workers' = [workers EXCEPT ![c].pc = "done", ![c].result = r]

\* an accept that is refused once a worker has failed
AcceptWhileHealthy(c) ==
    /\ server.listener = "accepting"
    /\ ~some_worker_failed
    /\ workers[c].pc = "none"
    /\ workers' = [workers EXCEPT ![c].pc = "parse",
                                  ![c].buffer = Zeros(server.initial_buffer_size),
                                  ![c].capacity = server.initial_buffer_size,
                                  ![c].late = FALSE]
    /\ UNCHANGED << server, peers, mutex, lock_order, db, rest_vars >>

\* Server::run: incoming() yields Ok(stream); the spawned thread starts
\* handle_connection: let mut buffer = vec![0; initial_buffer_size.0]
Accept(c) ==
    /\ server.listener = "accepting"
    /\ workers[c].pc = "none"
    /\ workers' = [workers EXCEPT ![c].pc = "parse",
                                  ![c].buffer = Zeros(server.initial_buffer_size),
                                  ![c].capacity = server.initial_buffer_size,
                                  ![c].late = some_worker_failed]
    /\ UNCHANGED << server, peers, mutex, lock_order, db, rest_vars >>

\* Server::run: incoming() yields Err(e); the spawned thread logs it
AcceptFails ==
    /\ server.listener = "accepting"
    /\ ~server.accept_error_logged
    /\ server' = [server EXCEPT !.accept_error_logged = TRUE]
    /\ UNCHANGED << workers, peers, mutex, lock_order, db, rest_vars >>

\* parse_request(&buffer[0..cursor]).unwrap()
WorkerParse(c) ==
    /\ workers[c].pc = "parse"
    /\ LET p == parse_request(Slice(workers[c].buffer, 0, workers[c].cursor)) IN
        CASE p.res = "Err" -> WorkerReturn(c, "PanicParse")
          [] p.res = "Some" ->
                workers' = [workers EXCEPT ![c].pc = "apply", ![c].request = p,
                                           ![c].served = @ + 1]
          [] p.res = "None" -> workers' = [workers EXCEPT ![c].pc = "check"]
    /\ UNCHANGED << server, peers, mutex, lock_order, db, rest_vars >>

\* db.get / insert / remove / clear: self.0.lock() returns the guard.  The
\* Mutex of a Server is never poisoned: no thread panics holding its guard.
WorkerLock(c) ==
    /\ workers[c].pc = "apply"
    /\ mutex.owner = "none"
    /\ ~mutex.poisoned
    /\ mutex' = [mutex EXCEPT !.owner = c]
    /\ lock_order' = Append(lock_order,
            [thread |-> c, idx |-> workers[c].served, op |-> workers[c].request.request])
    /\ workers' = [workers EXCEPT ![c].pc = "locked"]
    /\ UNCHANGED << server, peers, db, rest_vars >>

\* an operation on the map that returns with the guard still held
WorkerApplyHolding(c) ==
    /\ workers[c].pc = "locked"
    /\ LET a == apply_request(db, workers[c].request.request) IN
        /\ db' = a.db
        /\ workers' = [workers EXCEPT ![c].pc = "send", ![c].response = a.response]
    /\ UNCHANGED << server, peers, mutex, lock_order, rest_vars >>

\* the operation on the map under the guard, and the response of the match
WorkerApply(c) ==
    /\ workers[c].pc = "locked"
    /\ LET a == apply_request(db, workers[c].request.request) IN
        /\ db' = a.db
        /\ workers' = [workers EXCEPT ![c].pc = "send", ![c].response = a.response]
    /\ mutex' = [mutex EXCEPT !.owner = "none"]
    /\ UNCHANGED << server, peers, lock_order, rest_vars >>

\* send_response succeeds; the rest of the buffer moves up
WorkerSend(c) ==
    /\ workers[c].pc = "send"
    /\ workers' = [workers EXCEPT
            ![c].pc = "parse",
            ![c].written = @ \o serialize_response(workers[c].response),
            ![c].buffer = buffer_after(@, workers[c].cursor, workers[c].request.n),
            ![c].cursor = cursor_after(@, workers[c].request.n)]
    /\ UNCHANGED << server, peers, mutex, lock_order, db, rest_vars >>

\* send_response fails: .map_err(ServerError::IO)?
WorkerSendFails(c) ==
    /\ workers[c].pc = "send"
    /\ LET bytes == serialize_response(workers[c].response) IN
        \E k \in 0..(Len(bytes) - 1) :
            workers' = [workers EXCEPT ![c].pc = "done", ![c].result = "IO",
                                       ![c].written = @ \o SubSeq(bytes, 1, k)]
    /\ UNCHANGED << server, peers, mutex, lock_order, db, rest_vars >>

\* the TooMuchData check and the resize
WorkerCheck(c) ==
    /\ workers[c].pc = "check"
    /\ IF buffer_is_full(workers[c].buffer, server.max_buffer_size)
       THEN WorkerReturn(c, "TooMuchData")
       ELSE LET g == grown(workers[c].buffer, workers[c].capacity, workers[c].cursor) IN
            workers' = [workers EXCEPT ![c].pc = "read", ![c].buffer = g.vec,
                                       ![c].capacity = g.cap]
    /\ UNCHANGED << server, peers, mutex, lock_order, db, rest_vars >>

\* &mut buffer[cursor..read_end] panics
WorkerReadSlicePanics(c) ==
    /\ workers[c].pc = "read"
    /\ ~slice_in_range(workers[c].buffer, workers[c].capacity, workers[c].cursor)
    /\ WorkerReturn(c, "PanicSlice")
    /\ UNCHANGED << server, peers, mutex, lock_order, db, rest_vars >>

\* stream.read returns the bytes that have arrived and fit: cursor += n_bytes_read
WorkerReadBytes(c) ==
    /\ workers[c].pc = "read"
    /\ slice_in_range(workers[c].buffer, workers[c].capacity, workers[c].cursor)
    /\ LET n == Min(Len(workers[c].stream), workers[c].capacity - workers[c].cursor) IN
        /\ n > 0
        /\ workers' = [workers EXCEPT
                ![c].pc = "parse",
                ![c].buffer = read_into(@, workers[c].cursor,
                                        SubSeq(workers[c].stream, 1, n)),
                ![c].stream = SubSeq(@, n + 1, Len(@)),
                ![c].cursor = @ + n]
    /\ UNCHANGED << server, peers, mutex, lock_order, db, rest_vars >>

\* stream.read returns 0
WorkerReadZero(c) ==
    /\ workers[c].pc = "read"
    /\ slice_in_range(workers[c].buffer, workers[c].capacity, workers[c].cursor)
    /\ \/ workers[c].capacity - workers[c].cursor = 0
       \/ workers[c].stream = << >> /\ workers[c].peer_closed
    /\ WorkerReturn(c, on_zero_read(workers[c].cursor))
    /\ UNCHANGED << server, peers, mutex, lock_order, db, rest_vars >>

\* stream.read returns an error: .unwrap() panics
WorkerReadFails(c) ==
    /\ workers[c].pc = "read"
    /\ slice_in_range(workers[c].buffer, workers[c].capacity, workers[c].cursor)
    /\ WorkerReturn(c, "PanicRead")
    /\ UNCHANGED << server, peers, mutex, lock_order, db, rest_vars >>

\* the bytes the worker has written and the peer has not read
peer_unread(c) == SubSeq(workers[c].written, peers[c].consumed + 1, Len(workers[c].written))

\* the peer after a turn of receive_response's loop
PeerTurn(c, t, n) ==
    peers' = [peers EXCEPT
        ![c].buffer = t.vec,
        ![c].capacity = t.cap,
        ![c].consumed = @ + n,
        ![c].results = IF t.ret.res = "Again" THEN @ ELSE Append(@, t.ret),
        ![c].pc = IF t.ret.res = "Again" THEN @
                  ELSE IF Len(peers[c].results) + 1 < Len(peers[c].calls)
                  THEN "call" ELSE "done"]

\* Client::get / set / delete / flush: send_request, then the fresh buffer
PeerCall(c) ==
    /\ peers[c].pc = "call"
    /\ workers' = [workers EXCEPT ![c].stream =
            @ \o serialize_request(peers[c].calls[Len(peers[c].results) + 1])]
    /\ peers' = [peers EXCEPT ![c].pc = "receive",
                              ![c].buffer = Zeros(ClientInitBufferSize),
                              ![c].capacity = ClientInitBufferSize]
    /\ UNCHANGED << server, mutex, lock_order, db, rest_vars >>

\* send_request's write_all(..).unwrap() fails on a connection the worker closed
PeerCallPanics(c) ==
    /\ peers[c].pc = "call"
    /\ workers[c].pc = "done"
    /\ peers' = [peers EXCEPT ![c].pc = "dropped",
                              ![c].results = Append(@, Err("PanicWrite"))]
    /\ workers' = [workers EXCEPT ![c].peer_closed = TRUE]
    /\ UNCHANGED << server, mutex, lock_order, db, rest_vars >>

\* receive_response: stream.read(&mut buffer) returns the bytes that have arrived
PeerReadBytes(c) ==
    /\ peers[c].pc = "receive"
    /\ LET n == Min(Len(peer_unread(c)), Len(peers[c].buffer)) IN
        /\ n > 0
        /\ PeerTurn(c, receive_turn(peers[c].buffer, peers[c].capacity,
                                    peers[c].max_buffer_size,
                                    SubSeq(peer_unread(c), 1, n)), n)
    /\ UNCHANGED << server, workers, mutex, lock_order, db, rest_vars >>

\* receive_response: stream.read(&mut buffer) returns 0, the worker having ended
PeerReadZero(c) ==
    /\ peers[c].pc = "receive"
    /\ peer_unread(c) = << >>
    /\ workers[c].pc = "done"
    /\ PeerTurn(c, receive_turn(peers[c].buffer, peers[c].capacity,
                                peers[c].max_buffer_size, << >>), 0)
    /\ UNCHANGED << server, workers, mutex, lock_order, db, rest_vars >>

\* receive_response: stream.read(&mut buffer)? fails on a closed connection
PeerReadFails(c) ==
    /\ peers[c].pc = "receive"
    /\ workers[c].pc = "done"
    /\ PeerTurn(c, [ret |-> Err("IO"), vec |-> peers[c].buffer,
                    cap |-> peers[c].capacity], 0)
    /\ UNCHANGED << server, workers, mutex, lock_order, db, rest_vars >>

\* the Client is dropped after its last call: its stream closes
PeerDrop(c) ==
    /\ peers[c].pc = "done"
    /\ peers' = [peers EXCEPT ![c].pc = "dropped"]
    /\ workers' = [workers EXCEPT ![c].peer_closed = TRUE]
    /\ UNCHANGED << server, mutex, lock_order, db, rest_vars >>

(***************************************************************************)
(* The specification of a server with two connections.                     *)
(***************************************************************************)
\* (initial_buffer_size, max_buffer_size) of the modelled servers
ServerConfigs == { <<16, 32>>, <<2, 32>> }

\* a peer that makes the calls of a Client
ClientPeer(calls) == [calls |-> calls, raw |-> << >>]

\* a peer that writes bytes and closes
RawPeer(bytes) == [calls |-> << >>, raw |-> bytes]

\* SET a -> b followed by a GET whose key is not UTF-8, by the start of a GET,
\* and by the start of a SET that is longer than the largest buffer
FailingStreams ==
    { serialize_request(SetRequest(<<97>>, <<98>>)) \o tail :
        tail \in { BadUtf8Frame,
                   <<1, 0, 0>>,
                   <<2, 0, 0, 0, 1, 97, 0, 0, 0, 64>> \o Zeros(11) } }

\* what the two peers do
ServerPrograms ==
    { [c \in ConnIds |->
          IF c = "c1"
          THEN ClientPeer(<< SetRequest(<<97>>, <<98>>), SetRequest(<<97>>, v),
                             GetRequest(<<97>>) >>)
          ELSE ClientPeer(<< SetRequest(<<100>>, <<98>>), GetRequest(<<100>>) >>)] :
        v \in { <<99>> } \union ClientValues }
    \union
    { [c \in ConnIds |->
          IF c = "c1"
          THEN ClientPeer(<< SetRequest(<<97>>, <<98>>) >>)
          ELSE ClientPeer(<< SetRequest(<<100>>, <<98>>), FlushRequest, GetRequest(k) >>)] :
        k \in { <<97>>, <<100>> } }
    \union
    { [c \in ConnIds |->
          IF c = "c1" THEN RawPeer(bytes) ELSE ClientPeer(<< GetRequest(<<97>>) >>)] :
        bytes \in FailingStreams }

InitServer ==
    /\ CodecIdle
    /\ BuilderIdle
    /\ ClientIdle
    /\ ConnIdle
    /\ StoreIdle
    /\ \E cfg \in ServerConfigs :
          server = [listener |-> "accepting", accept_error_logged |-> FALSE,
                    initial_buffer_size |-> cfg[1], max_buffer_size |-> cfg[2]]
    /\ \E program \in ServerPrograms :
          /\ workers = [c \in ConnIds |->
                [pc |-> "none", buffer |-> << >>, capacity |-> 0, cursor |-> 0,
                 request |-> NoRequest, response |-> FlushResponse,
                 result |-> "Running", stream |-> program[c].raw,
                 peer_closed |-> (program[c].calls = << >>), written |-> << >>,
                 served |-> 0, late |-> FALSE]]
          /\ peers = [c \in ConnIds |->
                [pc |-> IF program[c].calls = << >> THEN "dropped" ELSE "call",
                 calls |-> program[c].calls,
                 max_buffer_size |-> 8 * ClientInitBufferSize,
                 buffer |-> << >>, capacity |-> 0, results |-> << >>,
                 consumed |-> 0]]

NextServer ==
    \/ \E c \in ConnIds : Accept(c)
    \/ AcceptFails
    \/ \E c \in ConnIds : WorkerParse(c)
    \/ \E c \in ConnIds : WorkerLock(c)
    \/ \E c \in ConnIds : WorkerApply(c)
    \/ \E c \in ConnIds : WorkerSend(c)
    \/ \E c \in ConnIds : WorkerSendFails(c)
    \/ \E c \in ConnIds : WorkerCheck(c)
    \/ \E c \in ConnIds : WorkerReadSlicePanics(c)
    \/ \E c \in ConnIds : WorkerReadBytes(c)
    \/ \E c \in ConnIds : WorkerReadZero(c)
    \/ \E c \in ConnIds : WorkerReadFails(c)
    \/ \E c \in ConnIds : PeerCall(c)
    \/ \E c \in ConnIds : PeerCallPanics(c)
    \/ \E c \in ConnIds : PeerReadBytes(c)
    \/ \E c \in ConnIds : PeerReadZero(c)
    \/ \E c \in ConnIds : PeerReadFails(c)
    \/ \E c \in ConnIds : PeerDrop(c)

SpecServer == InitServer /\ [][NextServer]_vars

(***************************************************************************)
(* The parsers on their own: parse_request and parse_response (lib.rs) are *)
(* handed a byte slice, whatever it holds: an opcode byte or another byte, *)
(* up to two length-prefixed fields and some bytes more, whole or cut      *)
(* short at any position.                                                  *)
(***************************************************************************)
\* first bytes: no opcode (0, 5, 255) and the four opcodes
ParseOpcodes == { 0, 1, 2, 3, 4, 5, 255 }

\* contents of a field: nothing, "a", a byte that is not UTF-8, U+00E9, and a
\* string whose first four bytes read as the length 1
ParseElements ==
    { << >>, <<97>>, <<255>>, <<195, 169>>, <<0, 0, 0, 1, 195, 169>> }

\* a field on the wire: the length, then the bytes; or no field
ParseFields == { to_be_bytes(Len(e)) \o e : e \in ParseElements } \union { << >> }

ParseTails == SeqsUpTo({ 0, 97 }, MaxTail)

ParseInputs ==
    UNION { Prefixes(<<op>> \o f1 \o f2 \o tail) :
               op \in ParseOpcodes, f1 \in ParseFields, f2 \in ParseFields,
               tail \in ParseTails }

InitParse ==
    /\ ConnIdle
    /\ StoreIdle
    /\ ServerIdle
    /\ BuilderIdle
    /\ ClientIdle
    /\ codec_stage = "bytes"
    /\ codec_kind \in { "request", "response" }
    /\ codec_value = FlushRequest
    /\ codec_bytes \in ParseInputs
    /\ codec_result = Incomplete

NextParse ==
    \/ ParseRequestBytes
    \/ ParseResponseBytes

SpecParse == InitParse /\ [][NextParse]_vars

(***************************************************************************)
(* ServerBuilder (server.rs:27-114): the options are set in any order, any *)
(* number of times, and build makes a Server of them.                      *)
(***************************************************************************)
\* InitialBufferSize::default()
DefaultInitialBufferSize == 4096

\* MaxBufferSize::default()
DefaultMaxBufferSize == 1024 * 1024

\* self.initial_db_size.unwrap_or(1024 * 1024)
DefaultDbSize == 1024 * 1024

\* Option<usize>
NoSize == [some |-> FALSE, v |-> 0]

SomeSize(n) == [some |-> TRUE, v |-> n]

unwrap_or(opt, default) == IF opt.some THEN opt.v ELSE default

\* the addresses given to address(): one that can be bound, one that cannot
BuilderAddrs == { "free", "in use" }

\* the sizes given to the setters
BuilderSizes == { 0, 32, 93 }

NoServer == [initial_buffer_size |-> 0, max_buffer_size |-> 0, db_capacity |-> 0]

\* ServerBuilder::new(): every option None
NewBuilder ==
    [state |-> "building", addr |-> "None", initial_db_size |-> NoSize,
     initial_buffer_size |-> NoSize, max_buffer_size |-> NoSize,
     listener_bound |-> FALSE, store_created |-> FALSE, server |-> NoServer]

builder_rest == << codec_vars, conn_vars, client_vars, store_vars, server_vars >>

\* address(addr)
BuilderAddress ==
    /\ builder.state = "building"
    /\ \E a \in BuilderAddrs : builder' = [builder EXCEPT !.addr = a]
    /\ UNCHANGED builder_rest

\* initial_db_size(n)
BuilderInitialDbSize ==
    /\ builder.state = "building"
    /\ \E n \in BuilderSizes : builder' = [builder EXCEPT !.initial_db_size = SomeSize(n)]
    /\ UNCHANGED builder_rest

\* initial_buffer_size(n)
BuilderInitialBufferSize ==
    /\ builder.state = "building"
    /\ \E n \in BuilderSizes :
          builder' = [builder EXCEPT !.initial_buffer_size = SomeSize(n)]
    /\ UNCHANGED builder_rest

\* max_buffer_size(n)
BuilderMaxBufferSize ==
    /\ builder.state = "building"
    /\ \E n \in BuilderSizes : builder' = [builder EXCEPT !.max_buffer_size = SomeSize(n)]
    /\ UNCHANGED builder_rest

\* the Server that build makes when the address can be bound
built_server(b) ==
    [initial_buffer_size |-> unwrap_or(b.initial_buffer_size, DefaultInitialBufferSize),
     max_buffer_size |-> unwrap_or(b.max_buffer_size, DefaultMaxBufferSize),
     db_capacity |-> unwrap_or(b.initial_db_size, DefaultDbSize)]

\* a build that binds the listener and creates the store before it looks at
\* the address
BuildThenCheck ==
    /\ builder.state = "building"
    /\ builder' =
          IF builder.addr = "None"
          THEN [builder EXCEPT !.state = "NoAddress", !.listener_bound = TRUE,
                               !.store_created = TRUE]
          ELSE IF builder.addr = "in use"
          THEN [builder EXCEPT !.state = "PanicBind"]
          ELSE [builder EXCEPT !.state = "built", !.listener_bound = TRUE,
                               !.store_created = TRUE, !.server = built_server(builder)]
    /\ UNCHANGED builder_rest

\* build(): Err(NoAddress) without an address; TcpListener::bind(addr).expect(..)
\* panics when the address cannot be bound; otherwise Ok(Server { .. })
Build ==
    /\ builder.state = "building"
    /\ builder' =
          IF builder.addr = "None"
          THEN [builder EXCEPT !.state = "NoAddress"]
          ELSE IF builder.addr = "in use"
          THEN [builder EXCEPT !.state = "PanicBind"]
          ELSE [builder EXCEPT !.state = "built", !.listener_bound = TRUE,
                               !.store_created = TRUE, !.server = built_server(builder)]
    /\ UNCHANGED builder_rest

InitBuilder ==
    /\ CodecIdle
    /\ ClientIdle
    /\ ConnIdle
    /\ StoreIdle
    /\ ServerIdle
    /\ builder = NewBuilder

NextBuilder ==
    \/ BuilderAddress
    \/ BuilderInitialDbSize
    \/ BuilderInitialBufferSize
    \/ BuilderMaxBufferSize
    \/ Build

SpecBuilder == InitBuilder /\ [][NextBuilder]_vars

(***************************************************************************)
(* What the wire table and the store table of the design ask of a          *)
(* connection, written without the operators above: the reply to a request *)
(* on a given map, and the map after it.                                   *)
(***************************************************************************)
reply_bytes(req, map) ==
    IF req.op = "Get"
    THEN IF req.key \in DOMAIN map
         THEN <<1, 0, 0, 0, Len(map[req.key])>> \o map[req.key]
         ELSE <<1>>
    ELSE IF req.op = "Set" THEN <<2>>
    ELSE IF req.op = "Delete" THEN <<3>>
    ELSE <<4>>

map_after(req, map) ==
    IF req.op = "Set"
    THEN [k \in (DOMAIN map) \union {req.key} |->
            IF k = req.key THEN req.value ELSE map[k]]
    ELSE IF req.op = "Delete" THEN [k \in (DOMAIN map) \ {req.key} |-> map[k]]
    ELSE IF req.op = "Flush" THEN EmptyMap
    ELSE map

\* the bytes of the replies to reqs, served in order starting from map
RECURSIVE replies(_, _)
replies(reqs, map) ==
    IF reqs = << >> THEN << >>
    ELSE reply_bytes(Head(reqs), map) \o replies(Tail(reqs), map_after(Head(reqs), map))

\* the map after reqs, served in order starting from map
RECURSIVE store_after(_, _)
store_after(reqs, map) ==
    IF reqs = << >> THEN map
    ELSE store_after(Tail(reqs), map_after(Head(reqs), map))

\* the request a frame of the peer encodes
request_of(frame) == CHOOSE r \in ConnRequests : serialize_request(r) = frame

\* the frames of requests whose strings are all non-empty, and FLUSH
IsRequestFrame(frame) ==
    /\ frame # BadUtf8Frame
    /\ request_of(frame).op \in {"Get", "Delete", "Set"} => request_of(frame).key # NoStr
    /\ request_of(frame).op = "Set" => request_of(frame).value # NoStr

input_requests == [i \in 1..Len(input_frames) |-> request_of(input_frames[i])]

\* the peer sent whole request frames and closed, and no read or write failed
WholeValidInput ==
    /\ input_cut = 0
    /\ \A i \in 1..Len(input_frames) : IsRequestFrame(input_frames[i])

NoIoFault == result \notin {"IO", "PanicRead"}

\* a server configured with a buffer that starts below its maximum and is
\* large enough for Vec's smallest allocation
OrdinarySizes == 4 <= initial_buffer_size /\ initial_buffer_size < max_buffer_size

(***************************************************************************)
(* C1.  On one client connection, after set(k, v) has returned the Set     *)
(* acknowledgement, the following get(k) returns Get(Some(v)).  Stated     *)
(* here for a transport on which no read or write fails and every read of  *)
(* the client returns all the bytes that have arrived and fit its buffer.  *)
(***************************************************************************)
C1_SetThenGet ==
    ( /\ Len(client_results) >= 2
      /\ client_calls[2].op = "Get"
      /\ client_results[1] = Ok(SetResponse)
      /\ NoIoFault
      /\ ~client_short_read )
        => client_results[2] = Ok(GetResponse(Some(client_calls[1].value)))

(***************************************************************************)
(* C2.  Decoding the encoding of a request allowed by the data model       *)
(* yields a frame holding an equal request, and a consumed-byte count      *)
(* equal to the length of the encoding.                                    *)
(***************************************************************************)
C2_RequestRoundTrip ==
    (codec_stage = "parsed" /\ codec_kind = "request")
        => codec_result = Frame(codec_value, Len(codec_bytes))

(***************************************************************************)
(* C3.  parse_response of serialize_response of a response is that         *)
(* response; Get(Some(v)) and Get(None) never decode to each other.        *)
(***************************************************************************)
C3_ResponseRoundTrip ==
    (codec_stage = "parsed" /\ codec_kind = "response")
        => codec_result = Parsed(codec_value)

(***************************************************************************)
(* C4.  For a stream of N valid request frames, each at most               *)
(* max_buffer_size long, followed by end of stream, handle_connection      *)
(* writes exactly the N responses, in order, and applies the N requests.   *)
(* Stated here for servers of ordinary sizes only.                         *)
(***************************************************************************)
C4_AllFramesServed ==
    ( /\ pc = "done"
      /\ NoIoFault
      /\ OrdinarySizes
      /\ WholeValidInput
      /\ \A i \in 1..Len(input_frames) : Len(input_frames[i]) <= max_buffer_size )
        => /\ parsed = input_requests
           /\ written = replies(input_requests, EmptyMap)
           /\ db = store_after(input_requests, EmptyMap)

(***************************************************************************)
(* C5.  However the transport splits a valid request stream into reads,    *)
(* handle_connection ends with the responses, the store and the return     *)
(* value it ends with when every read returns as many bytes as fit.        *)
(***************************************************************************)
\* handle_connection run to its end with every read filling the slice
RECURSIVE run_whole(_)
run_whole(c) ==
    LET p == parse_request(Slice(c.buffer, 0, c.cursor)) IN
    IF p.res = "Err" THEN [written |-> c.written, db |-> c.db, result |-> "PanicParse"]
    ELSE IF p.res = "Some"
    THEN LET a == apply_request(c.db, p.request) IN
         run_whole([c EXCEPT !.db = a.db,
                             !.written = @ \o serialize_response(a.response),
                             !.buffer = buffer_after(c.buffer, c.cursor, p.n),
                             !.cursor = cursor_after(c.cursor, p.n)])
    ELSE IF buffer_is_full(c.buffer, c.max)
    THEN [written |-> c.written, db |-> c.db, result |-> "TooMuchData"]
    ELSE LET g == grown(c.buffer, c.capacity, c.cursor) IN
         IF ~slice_in_range(g.vec, g.cap, c.cursor)
         THEN [written |-> c.written, db |-> c.db, result |-> "PanicSlice"]
         ELSE LET n == Min(Len(c.stream), g.cap - c.cursor) IN
              IF n = 0
              THEN [written |-> c.written, db |-> c.db, result |-> on_zero_read(c.cursor)]
              ELSE run_whole([c EXCEPT
                        !.buffer = read_into(g.vec, c.cursor, SubSeq(c.stream, 1, n)),
                        !.capacity = g.cap,
                        !.cursor = c.cursor + n,
                        !.stream = SubSeq(c.stream, n + 1, Len(c.stream))])

whole_reads_outcome ==
    run_whole([buffer |-> Zeros(initial_buffer_size), capacity |-> initial_buffer_size,
               cursor |-> 0, db |-> EmptyMap, written |-> << >>,
               max |-> max_buffer_size, stream |-> Concat(input_frames)])

C5_ChunkingIrrelevant ==
    (pc = "done" /\ NoIoFault /\ OrdinarySizes /\ WholeValidInput)
        => [written |-> written, db |-> db, result |-> result] = whole_reads_outcome

(***************************************************************************)
(* C6.  The per-connection buffer is never longer than max_buffer_size.    *)
(***************************************************************************)
C6_BufferWithinMax == Len(buffer) <= max_buffer_size

(***************************************************************************)
(* C7.  A SET frame longer than max_buffer_size ends the connection with   *)
(* TooMuchData and leaves the store as it was.                             *)
(***************************************************************************)
C7_OversizedFrameRejected ==
    ( /\ pc = "done"
      /\ NoIoFault
      /\ WholeValidInput
      /\ Len(input_frames) = 1
      /\ input_requests[1].op = "Set"
      /\ Len(input_frames[1]) > max_buffer_size )
        => result = "TooMuchData" /\ db = EmptyMap

(***************************************************************************)
(* C8.  With initial_buffer_size below max_buffer_size, a SET frame longer *)
(* than initial_buffer_size and at most max_buffer_size long is applied    *)
(* and acknowledged with one Set response.  Stated here for an             *)
(* ordinary server and a SET with non-empty strings.                       *)
(***************************************************************************)
C8_GrowingSetApplied ==
    ( /\ pc = "done"
      /\ NoIoFault
      /\ WholeValidInput
      /\ Len(input_frames) = 1
      /\ input_requests[1].op = "Set"
      /\ OrdinarySizes
      /\ initial_buffer_size < Len(input_frames[1])
      /\ Len(input_frames[1]) <= max_buffer_size )
        => /\ db = store_after(input_requests, EmptyMap)
           /\ written = <<2>>

(***************************************************************************)
(* C9.  Exactly one response is written for every parsed request, in the   *)
(* order the requests were parsed, and the response to a request is        *)
(* written before the next request is parsed.  (A request whose response   *)
(* write fails is the last one: the connection ends there, with at most a  *)
(* part of that response written.)                                         *)
(***************************************************************************)
\* the requests whose response has been written in full
answered ==
    IF pc \in {"apply", "send"} \/ result = "IO"
    THEN SubSeq(parsed, 1, Len(parsed) - 1)
    ELSE parsed

IsPrefix(a, b) == Len(a) <= Len(b) /\ SubSeq(b, 1, Len(a)) = a

C9_OneResponsePerRequest ==
    /\ Len(written_at_parse) = Len(parsed)
    /\ \A i \in 1..Len(parsed) :
          written_at_parse[i] = Len(replies(SubSeq(parsed, 1, i - 1), EmptyMap))
    /\ result # "IO" => written = replies(answered, EmptyMap)
    /\ result = "IO" =>
          /\ parsed # << >>
          /\ IsPrefix(replies(answered, EmptyMap), written)
          /\ IsPrefix(written, replies(parsed, EmptyMap))
          /\ written # replies(parsed, EmptyMap)

\* two requests have been parsed and answered, the second a GET that hit
C9_Witness ==
    /\ pc = "parse"
    /\ Len(parsed) = 2
    /\ parsed[2].op = "Get"
    /\ written = <<2, 1, 0, 0, 0, 1, 98>>

(***************************************************************************)
(* C10.  When the peer has closed the stream and no partial frame is       *)
(* buffered (cursor = 0), handle_connection returns Ok, whatever size the  *)
(* buffer has reached.  Stated here for servers of ordinary sizes.         *)
(***************************************************************************)
C10_CleanCloseIsOk ==
    ( /\ pc = "done"
      /\ NoIoFault
      /\ OrdinarySizes
      /\ peer_closed
      /\ stream = << >>
      /\ cursor = 0 )
        => result = "Ok"

(***************************************************************************)
(* C11.  On one client connection, after set(k, v) and delete(k) have      *)
(* both been acknowledged, the store has no binding of k and the following *)
(* get(k) returns Get(None): always when no read or write of the           *)
(* connection fails, and whenever it returns a response at all.            *)
(***************************************************************************)
\* the client's program is set(k, v); delete(k); get(k), the first two acknowledged
SetDeleteAcknowledged ==
    /\ Len(client_calls) = 3
    /\ client_calls[2].op = "Delete"
    /\ Len(client_results) >= 2
    /\ client_results[1] = Ok(SetResponse)
    /\ client_results[2] = Ok(DeleteResponse)

C11_SetDeleteThenGet ==
    SetDeleteAcknowledged =>
        /\ client_calls[1].key \notin DOMAIN db
        /\ Len(client_results) = 3 =>
              /\ NoIoFault => client_results[3] = Ok(GetResponse(None))
              /\ client_results[3].res = "Ok" => client_results[3] = Ok(GetResponse(None))

\* the three calls have returned, the get with Get(None)
C11_Witness ==
    /\ SetDeleteAcknowledged
    /\ Len(client_results) = 3
    /\ client_results[3] = Ok(GetResponse(None))
    /\ Len(parsed) = 3
    /\ written = <<2, 3, 1>>

(***************************************************************************)
(* C13.  A client call returns only once a whole response frame has been   *)
(* received: however the transport splits the server's responses into      *)
(* reads, and also when a response is longer than the client's initial     *)
(* buffer and shorter than its max_buffer_size, every call returns the     *)
(* response the server sent for it.  Stated here for a connection on which *)
(* no read or write fails.                                                 *)
(***************************************************************************)
\* the response the wire table asks for a request served on a given map
response_to(req, map) ==
    IF req.op = "Get"
    THEN GetResponse(IF req.key \in DOMAIN map THEN Some(map[req.key]) ELSE None)
    ELSE IF req.op = "Set" THEN SetResponse
    ELSE IF req.op = "Delete" THEN DeleteResponse
    ELSE FlushResponse

C13_WholeResponseOnly ==
    NoIoFault =>
        \A i \in 1..Len(client_results) :
            /\ Len(serialize_response(response_to(client_calls[i],
                    store_after(SubSeq(client_calls, 1, i - 1), EmptyMap))))
                  < client_max_buffer_size
            => client_results[i] =
                  Ok(response_to(client_calls[i],
                                 store_after(SubSeq(client_calls, 1, i - 1), EmptyMap)))

(***************************************************************************)
(* C14.  When the frame at the front of the buffer has a string field that *)
(* is not valid UTF-8, handle_connection ends by returning an error to its *)
(* caller, having written no reply for that frame and having left the      *)
(* store as the requests before it made it.                                *)
(***************************************************************************)
\* the values of result that are an Err(_) returned by handle_connection
ReturnedErrors == { "TooMuchData", "ConnectionResetByPeer", "IO", "Parsing", "Database" }

\* the connection is over with a malformed frame at the front of the buffer
MalformedFrameBuffered ==
    /\ pc = "done"
    /\ parse_request(Slice(buffer, 0, cursor)) = Malformed
    /\ result \notin {"IO", "PanicRead"}

C14_MalformedReturnsError ==
    MalformedFrameBuffered =>
        /\ result \in ReturnedErrors
        /\ written = replies(parsed, EmptyMap)
        /\ db = store_after(parsed, EmptyMap)

(***************************************************************************)
(* C15.  If a read returns zero bytes while a partial frame is buffered    *)
(* (cursor > 0), handle_connection returns the ConnectionResetByPeer error *)
(* and the partial frame is never applied: the step leaves the store, the  *)
(* parsed requests and the written bytes as they were, and nothing changes *)
(* the store once handle_connection is over.                               *)
(***************************************************************************)
\* the step in which stream.read returned 0 and handle_connection returned
ZeroReadStep ==
    /\ pc = "read"
    /\ pc' = "done"
    /\ result' \notin {"PanicRead", "PanicSlice"}

C15_ResetMidFrame ==
    [][ /\ (ZeroReadStep /\ cursor > 0) =>
              /\ result' = "ConnectionResetByPeer"
              /\ db' = db
              /\ parsed' = parsed
              /\ written' = written
        /\ pc = "done" => (db' = db /\ result' = result /\ pc' = "done") ]_vars

\* a SET was served, then the peer closed in the middle of the next frame
C15_Witness ==
    /\ pc = "done"
    /\ result = "ConnectionResetByPeer"
    /\ cursor > 0
    /\ input_cut > 0
    /\ Len(input_frames) = 2
    /\ parsed = << SetRequest(<<97>>, <<98>>) >>
    /\ db = store_after(parsed, EmptyMap)

(***************************************************************************)
(* C16.  Every store operation is atomic.  At most one thread holds the    *)
(* guard; the map is the result of running, one after the other and in the *)
(* order they acquired the lock, the operations that have run; every       *)
(* result returned is the result of its operation in that sequential       *)
(* execution.  So of two concurrent inserts of one key the map keeps the   *)
(* value of the one that acquired the lock last, and no get sees a map     *)
(* that is not the map after a whole number of operations.                 *)
(***************************************************************************)
\* the entry of lock_order is of an operation that holds the guard and has not run
IsPending(e) ==
    /\ e.thread \in StoreThreads
    /\ threads[e.thread].pc = "locked"
    /\ e.idx = Len(threads[e.thread].results) + 1

ops_of(entries) == [i \in 1..Len(entries) |-> entries[i].op]

\* the operations that have run, in lock-acquisition order
applied_ops == ops_of(SelectSeq(lock_order, LAMBDA e : ~IsPending(e)))

\* the value the operation at position i of lock_order returns in the
\* sequential execution of lock_order
sequential_result(i) ==
    IF lock_order[i].op.op = "Get"
    THEN response_to(lock_order[i].op,
                     store_after(ops_of(SubSeq(lock_order, 1, i - 1)), EmptyMap)).value
    ELSE None

guard_holders ==
    { t \in StoreThreads : threads[t].pc = "locked" }
    \union (IF direct \in {"holding", "wrote"} THEN {"direct"} ELSE {})

C16_StoreOperationsAtomic ==
    /\ Cardinality(guard_holders) <= 1
    /\ guard_holders = (IF mutex.owner = "none" THEN {} ELSE {mutex.owner})
    /\ db = store_after(applied_ops, EmptyMap)
    /\ \A i \in 1..Len(lock_order) :
          (lock_order[i].thread \in StoreThreads /\ ~IsPending(lock_order[i])) =>
              /\ lock_order[i].idx <= Len(threads[lock_order[i].thread].results)
              /\ threads[lock_order[i].thread].results[lock_order[i].idx]
                    = DbOk(sequential_result(i))
    /\ \A t \in StoreThreads : \A j \in 1..Len(threads[t].results) :
          threads[t].results[j].res = "Ok" =>
              \E i \in 1..Len(lock_order) :
                  lock_order[i].thread = t /\ lock_order[i].idx = j

\* two inserts of one key raced: t2 acquired the lock first, t1 waited for the
\* guard and acquired it last, and its value is the one stored; a later get of
\* t1 returned it
C16_Witness ==
    /\ Len(lock_order) = 3
    /\ lock_order[1] = [thread |-> "t2", idx |-> 1, op |-> SetRequest(<<97>>, <<99>>)]
    /\ lock_order[2] = [thread |-> "t1", idx |-> 1, op |-> SetRequest(<<97>>, <<98>>)]
    /\ lock_order[3] = [thread |-> "t1", idx |-> 2, op |-> GetRequest(<<97>>)]
    /\ threads["t1"].results = << DbOk(None), DbOk(Some(<<98>>)) >>
    /\ threads["t2"].results = << DbOk(None) >>
    /\ db = [k \in { <<97>> } |-> <<98>>]

(***************************************************************************)
(* C18.  Used by one thread, the store behaves like a map: every call      *)
(* succeeds; get(k) returns the value of the latest insert of k that no    *)
(* remove(k) or clear() followed, and None when there is none; the map     *)
(* holds exactly those bindings, so insert replaces the binding of its key *)
(* and leaves other keys alone, remove of an absent key and get change     *)
(* nothing, and clear removes every binding.                               *)
(***************************************************************************)
\* the value of the latest insert of k in ops that no remove(k) or clear follows
RECURSIVE latest_binding(_, _)
latest_binding(ops, k) ==
    IF ops = << >> THEN None
    ELSE LET o == ops[Len(ops)] IN
         IF o.op = "Set" /\ o.key = k THEN Some(o.value)
         ELSE IF o.op = "Flush" \/ (o.op = "Delete" /\ o.key = k) THEN None
         ELSE latest_binding(SubSeq(ops, 1, Len(ops) - 1), k)

StoreKeys == { op.key : op \in { o \in StoreOps : o.op # "Flush" } }

\* only the thread t1 has used the store
UsedSequentially ==
    /\ threads["t2"].pc = "idle"
    /\ threads["t2"].results = << >>
    /\ direct = "out"

C18_StoreIsAMap ==
    UsedSequentially =>
        /\ DOMAIN db = { k \in StoreKeys : latest_binding(applied_ops, k).some }
        /\ \A k \in DOMAIN db : db[k] = latest_binding(applied_ops, k).v
        /\ \A i \in 1..Len(threads["t1"].results) :
              threads["t1"].results[i] =
                  DbOk(IF lock_order[i].op.op = "Get"
                       THEN latest_binding(ops_of(SubSeq(lock_order, 1, i - 1)),
                                           lock_order[i].op.key)
                       ELSE None)

\* t1 alone inserted a key twice and read it: the second value came back, and
\* the binding of the other key, inserted in between, would not be there
C18_Witness ==
    /\ UsedSequentially
    /\ ops_of(lock_order) =
          << SetRequest(<<97>>, <<98>>), SetRequest(<<97>>, <<99>>), GetRequest(<<97>>) >>
    /\ threads["t1"].results = << DbOk(None), DbOk(None), DbOk(Some(<<99>>)) >>
    /\ threads["t1"].pc = "idle"
    /\ db = [k \in { <<97>> } |-> <<99>>]

(***************************************************************************)
(* C19.  Contention on the store never surfaces as an error.  A call made  *)
(* while another thread holds the guard waits, and gets the guard as soon  *)
(* as it is free; a call returns an error only when the Mutex is poisoned, *)
(* and every call made on a Mutex that is not poisoned succeeds.           *)
(***************************************************************************)
C19_ContentionIsNotAnError ==
    /\ \A t \in StoreThreads : \A j \in 1..Len(threads[t].results) :
          threads[t].results[j] # DbOk(threads[t].results[j].value) => mutex.poisoned
    /\ \A t \in StoreThreads :
          (threads[t].pc = "lock" /\ mutex.owner = "none" /\ ~mutex.poisoned)
              => ENABLED DbLock(t)
    /\ \A t \in StoreThreads :
          (threads[t].pc = "lock" /\ mutex.owner = "none" /\ mutex.poisoned)
              => ENABLED DbLockPoisoned(t)

\* t1 is waiting for the guard that t2 holds, after a first call that succeeded
C19_Witness ==
    /\ threads["t1"].pc = "lock"
    /\ threads["t2"].pc = "locked"
    /\ mutex = [owner |-> "t2", poisoned |-> FALSE]
    /\ threads["t1"].results = << DbOk(None) >>
    /\ lock_order[1] = [thread |-> "t1", idx |-> 1, op |-> SetRequest(<<97>>, <<98>>)]

(***************************************************************************)
(* C12.  After flush() has been acknowledged with Response::Flush on a     *)
(* connection, a get(k) made later on that connection returns Get(None)    *)
(* for every key k that was set before the flush, by this or by another    *)
(* connection, unless k was set again after the flush: always when no read *)
(* or write of the connection fails, and whenever the get returns a        *)
(* response at all.                                                        *)
(***************************************************************************)
\* the operation of the j-th request of connection c has acquired the lock
has_entry(c, j) ==
    \E p \in 1..Len(lock_order) : lock_order[p].thread = c /\ lock_order[p].idx = j

\* its position in the lock order
pos(c, j) ==
    CHOOSE p \in 1..Len(lock_order) : lock_order[p].thread = c /\ lock_order[p].idx = j

IsSetOf(op, k) == op.op = "Set" /\ op.key = k

\* k was set, by any connection, before the j-th request of c ran
WasSetBefore(k, c, j) ==
    /\ has_entry(c, j)
    /\ \E p \in 1..(pos(c, j) - 1) : IsSetOf(lock_order[p].op, k)

\* k was set after the j-th request of c ran and before its i-th ran
SetAgain(k, c, j, i) ==
    \E p \in (pos(c, j) + 1)..Len(lock_order) :
        /\ IsSetOf(lock_order[p].op, k)
        /\ has_entry(c, i) => p < pos(c, i)

ConnNoIoFault(c) == workers[c].result \notin {"IO", "PanicRead"}

C12_FlushThenGet ==
    \A c \in ConnIds : \A j \in 1..Len(peers[c].results) :
        \A i \in (j + 1)..Len(peers[c].results) :
            ( /\ peers[c].calls[j] = FlushRequest
              /\ peers[c].results[j] = Ok(FlushResponse)
              /\ peers[c].calls[i].op = "Get"
              /\ WasSetBefore(peers[c].calls[i].key, c, j)
              /\ ~SetAgain(peers[c].calls[i].key, c, j, i) )
            => /\ ConnNoIoFault(c) => peers[c].results[i] = Ok(GetResponse(None))
               /\ peers[c].results[i].res = "Ok"
                     => peers[c].results[i] = Ok(GetResponse(None))

\* c1 set a, then c2 set d and flushed, and c2's get of a returned Get(None)
C12_Witness ==
    /\ ops_of(lock_order) = << SetRequest(<<97>>, <<98>>), SetRequest(<<100>>, <<98>>),
                               FlushRequest, GetRequest(<<97>>) >>
    /\ lock_order[1].thread = "c1"
    /\ peers["c1"].results = << Ok(SetResponse) >>
    /\ peers["c2"].results = << Ok(SetResponse), Ok(FlushResponse), Ok(GetResponse(None)) >>
    /\ db = EmptyMap

(***************************************************************************)
(* C17.  Two client connections that concurrently SET values on disjoint   *)
(* sets of keys and then GET their own keys observe, for every key, the    *)
(* value they wrote last, and every call on a connection returns the       *)
(* response to that call: the one its own earlier calls determine.  Stated *)
(* here for connections on which no read or write fails and a server of    *)
(* ordinary sizes.                                                         *)
(***************************************************************************)
keys_of(calls) == { calls[i].key : i \in 1..Len(calls) }

\* both peers are clients that set and get keys the other does not use
DisjointSetsAndGets ==
    /\ \A c \in ConnIds :
          /\ peers[c].calls # << >>
          /\ \A i \in 1..Len(peers[c].calls) : peers[c].calls[i].op \in {"Set", "Get"}
    /\ keys_of(peers["c1"].calls) \cap keys_of(peers["c2"].calls) = {}

C17_DisjointKeysIsolated ==
    ( /\ DisjointSetsAndGets
      /\ \A c \in ConnIds : ConnNoIoFault(c)
      /\ server.initial_buffer_size >= 4 )
        => \A c \in ConnIds : \A i \in 1..Len(peers[c].results) :
              peers[c].results[i] =
                  Ok(response_to(peers[c].calls[i],
                                 store_after(SubSeq(peers[c].calls, 1, i - 1), EmptyMap)))

(***************************************************************************)
(* C20.  A failure of one worker (TooMuchData, a reset in the middle of a  *)
(* frame, a malformed frame, an I/O fault, a panic) never stops the        *)
(* listener and never makes the store unusable.  The listener keeps        *)
(* accepting and a connection that is waiting can be accepted whatever has *)
(* failed; the Mutex is never poisoned and no worker that has ended holds  *)
(* its guard, so a worker that wants the lock gets it when it is free; the *)
(* map is what the operations that ran made it, those of the failed        *)
(* connections included; and every worker, also one accepted after a       *)
(* failure, has written the replies that the requests it served have in    *)
(* the sequential execution of all the operations.                         *)
(***************************************************************************)
\* the operation of the entry holds the guard and has not run
IsPendingWorker(e) ==
    workers[e.thread].pc = "locked" /\ e.idx = workers[e.thread].served

\* the entry's reply has been written in full
IsAnswered(e) ==
    \/ e.idx < workers[e.thread].served
    \/ workers[e.thread].pc \notin {"locked", "send"} /\ workers[e.thread].result # "IO"

\* the replies, in the sequential execution of lock_order, to the answered
\* requests of connection c among the first n entries
RECURSIVE replies_to(_, _)
replies_to(c, n) ==
    IF n = 0 THEN << >>
    ELSE replies_to(c, n - 1) \o
         (IF lock_order[n].thread = c /\ IsAnswered(lock_order[n])
          THEN reply_bytes(lock_order[n].op,
                           store_after(ops_of(SubSeq(lock_order, 1, n - 1)), EmptyMap))
          ELSE << >>)

C20_FailureIsContained ==
    /\ server.listener = "accepting"
    /\ ~mutex.poisoned
    /\ mutex.owner # "none" => workers[mutex.owner].pc = "locked"
    /\ \A c \in ConnIds : workers[c].pc = "none" => ENABLED Accept(c)
    /\ \A c \in ConnIds :
          (workers[c].pc = "apply" /\ mutex.owner = "none") => ENABLED WorkerLock(c)
    /\ db = store_after(ops_of(SelectSeq(lock_order, LAMBDA e : ~IsPendingWorker(e))),
                        EmptyMap)
    /\ \A c \in ConnIds :
          workers[c].result # "IO" => workers[c].written = replies_to(c, Len(lock_order))

\* the worker of c1 stored a -> b and then panicked on a malformed frame; c2
\* was accepted after that, and its get of a returned b
C20_Witness ==
    /\ workers["c1"].pc = "done"
    /\ workers["c1"].result = "PanicParse"
    /\ workers["c2"].late
    /\ peers["c2"].results = << Ok(GetResponse(Some(<<98>>))) >>
    /\ server.accept_error_logged

(***************************************************************************)
(* C21.  The client's receive buffer is never longer than max_buffer_size, *)
(* and receive_response returns TooMuchData only when the bytes received   *)
(* are not a response and the buffer cannot be doubled within              *)
(* max_buffer_size.  Stated here for a max_buffer_size that is at least    *)
(* the initial size of the buffer.                                         *)
(***************************************************************************)
C21_ClientBufferWithinMax ==
    client_max_buffer_size >= ClientInitBufferSize =>
        /\ Len(client_buffer) <= client_max_buffer_size
        /\ (client_results # << >> /\ client_results[1] = Err("TooMuchData")) =>
              parse_response(client_buffer) = NoResponse

(***************************************************************************)
(* C22.  A client call returns ConnectionResetByPeer only when a read      *)
(* returned zero bytes and the bytes received are not a response, and a    *)
(* response it returns is made of bytes it received: the encoding of the   *)
(* response is the start of what the stream delivered.  Stated here for a  *)
(* stream that is read in one piece.                                       *)
(***************************************************************************)
C22_ResponseFromReceivedBytes ==
    (client_results # << >> /\ ~client_short_read) =>
        /\ client_results[1].res = "Ok" =>
              IsPrefix(serialize_response(client_results[1].response),
                       SubSeq(written, 1, client_consumed))
        /\ client_results[1].res = "ConnectionResetByPeer" =>
              /\ client_consumed = Len(written)
              /\ parse_response(written) # Parsed(parse_response(written).response)

(***************************************************************************)
(* C23.  ServerBuilder::build returns the NoAddress error, without binding *)
(* a listener or creating a store, when no address was set, and returns    *)
(* nothing else then; when an address was set that can be bound it builds  *)
(* a server whose initial buffer size, maximum buffer size and store       *)
(* capacity are the options that were set, and 4096, 1048576 and 1048576   *)
(* for the options left unset.                                             *)
(***************************************************************************)
C23_BuildDefaults ==
    /\ builder.state = "NoAddress" =>
          /\ builder.addr = "None"
          /\ ~builder.listener_bound
          /\ ~builder.store_created
          /\ builder.server = NoServer
    /\ builder.state \in {"built", "PanicBind"} => builder.addr # "None"
    /\ builder.state = "built" =>
          /\ builder.addr = "free"
          /\ builder.server.initial_buffer_size =
                (IF builder.initial_buffer_size.some
                 THEN builder.initial_buffer_size.v ELSE 4096)
          /\ builder.server.max_buffer_size =
                (IF builder.max_buffer_size.some
                 THEN builder.max_buffer_size.v ELSE 1048576)
          /\ builder.server.db_capacity =
                (IF builder.initial_db_size.some
                 THEN builder.initial_db_size.v ELSE 1048576)

\* a server built with an address, a maximum buffer size of 93 and nothing else
C23_Witness ==
    /\ builder.state = "built"
    /\ builder.server =
          [initial_buffer_size |-> 4096, max_buffer_size |-> 93, db_capacity |-> 1048576]
    /\ builder.listener_bound

(***************************************************************************)
(* C24.  handle_connection returns TooMuchData only when the buffer has    *)
(* reached max_buffer_size and is completely filled by a frame that is     *)
(* still incomplete: never while the buffer holds no unparsed bytes, and   *)
(* never while it has free space left.                                     *)
(***************************************************************************)
C24_TooMuchDataOnlyWhenFull ==
    result = "TooMuchData" =>
        /\ Len(buffer) >= max_buffer_size
        /\ cursor > 0
        /\ cursor = Len(buffer)

\* the requests of the data model whose strings are among ParseElements:
\* UTF-8, and not empty
ValidStrings == { e \in ParseElements : e # << >> /\ from_utf8_ok(e) }

ValidRequests ==
    { GetRequest(k) : k \in ValidStrings }
    \union { SetRequest(k, v) : k \in ValidStrings, v \in ValidStrings }
    \union { DeleteRequest(k) : k \in ValidStrings }
    \union { FlushRequest }

IsStrictPrefix(a, b) == Len(a) < Len(b) /\ IsPrefix(a, b)

request_parsed == codec_stage = "parsed" /\ codec_kind = "request"

response_parsed == codec_stage = "parsed" /\ codec_kind = "response"

(***************************************************************************)
(* C25.  parse_request on a strict prefix of the encoding of a valid       *)
(* request returns Incomplete: never a frame and never a Malformed error,  *)
(* whatever the key and the value are.                                     *)
(***************************************************************************)
C25_PrefixIsIncomplete ==
    (/\ request_parsed
     /\ \E r \in ValidRequests : IsStrictPrefix(codec_bytes, serialize_request(r)))
        => codec_result = Incomplete

(***************************************************************************)
(* C26.  parse_response on bytes that start with opcode 1 yields Get(None) *)
(* when fewer than 4 length bytes follow, Get(Some(v)) when the length is  *)
(* followed by that many bytes (of UTF-8), and Incomplete when the length  *)
(* is there and fewer value bytes than it announces: never Get(None) for a *)
(* response cut short inside its value.                                    *)
(***************************************************************************)
C26_GetResponseParse ==
    (response_parsed /\ codec_bytes # << >> /\ codec_bytes[1] = 1) =>
        IF Len(codec_bytes) < 5
        THEN codec_result = Parsed(GetResponse(None))
        ELSE LET n == from_be_bytes(SubSeq(codec_bytes, 2, 5)) IN
            IF Len(codec_bytes) < 5 + n
            THEN codec_result = NoResponse
            ELSE from_utf8_ok(SubSeq(codec_bytes, 6, 5 + n)) =>
                    codec_result = Parsed(GetResponse(Some(SubSeq(codec_bytes, 6, 5 + n))))

(***************************************************************************)
(* C27.  When the response to a frame of n bytes parsed from               *)
(* buffer[0..cursor] has been sent, the bytes buffer[n..cursor] are kept   *)
(* unchanged and in order as buffer[0..cursor-n] and cursor becomes        *)
(* cursor-n (0 when n = cursor): no byte of the next frame is lost,        *)
(* duplicated or reordered, and the next parse starts at the first byte    *)
(* after the consumed frame.                                               *)
(***************************************************************************)
C27_CompactionKeepsRest ==
    [][(pc = "send" /\ pc' = "parse") =>
          /\ cursor' = cursor - request.n
          /\ Len(buffer') = Len(buffer)
          /\ Slice(buffer', 0, cursor') = Slice(buffer, request.n, cursor)
          /\ stream' = stream
          /\ (request.n = cursor => cursor' = 0)]_vars

\* FLUSH and "GET a" arrived in one read of 7 bytes; FLUSH is answered and the
\* 6 bytes of the GET are at the front of the buffer (the 7th is left as it was)
C27_Witness ==
    /\ pc = "parse"
    /\ input_frames = << <<4>>, <<1, 0, 0, 0, 1, 97>> >>
    /\ parsed = << FlushRequest >>
    /\ written = <<4>>
    /\ cursor = 6
    /\ SubSeq(buffer, 1, 7) = <<1, 0, 0, 0, 1, 97, 97>>

(***************************************************************************)
(* C28.  In every reachable state of a server connection 0 <= cursor <=    *)
(* buffer.len(); the byte count n of a parsed frame is at least 1 and at   *)
(* most cursor, so that dropping the frame does not take cursor below 0,   *)
(* and the bytes a read has stored, which end at cursor, lie within the    *)
(* buffer.                                                                 *)
(***************************************************************************)
C28_CursorWithinBuffer ==
    /\ 0 <= cursor
    /\ cursor <= Len(buffer)
    /\ pc \in { "apply", "send" } => (1 <= request.n /\ request.n <= cursor)

\* a read has filled the grown buffer to its last byte after a frame was served
C28_Witness ==
    /\ pc = "parse"
    /\ parsed # << >>
    /\ Len(buffer) > initial_buffer_size
    /\ cursor = Len(buffer)
    /\ cursor > 0

(***************************************************************************)
(* C29.  parse_request on input whose first byte is 0 or greater than 4    *)
(* returns Incomplete, never an error, whatever the bytes after it are; on *)
(* empty input it returns Incomplete too.                                  *)
(***************************************************************************)
C29_NoOpcodeIsIncomplete ==
    (/\ request_parsed
     /\ \/ codec_bytes = << >>
        \/ codec_bytes[1] = 0
        \/ codec_bytes[1] > 4)
        => codec_result = Incomplete

\* the byte 255 followed by a field that is not UTF-8
C29_Witness ==
    /\ request_parsed
    /\ codec_bytes = <<255, 0, 0, 0, 1, 255>>
    /\ codec_result = Incomplete

\* the length bytes at 0-based position at of b
length_at(b, at) == from_be_bytes(Slice(b, at, at + 4))

\* b holds the whole key of a GET, SET or DELETE
has_key(b) ==
    /\ Len(b) >= 5
    /\ b[1] \in { 1, 2, 3 }
    /\ Len(b) >= 5 + length_at(b, 1)

\* the decoded length of the key is zero
zero_length_key(b) == Len(b) >= 5 /\ b[1] \in { 1, 2, 3 } /\ length_at(b, 1) = 0

\* the decoded length of the value of a SET, after a key that is there, is zero
zero_length_value(b) ==
    /\ has_key(b)
    /\ b[1] = 2
    /\ length_at(b, 1) > 0
    /\ Len(b) >= 5 + length_at(b, 1) + 4
    /\ length_at(b, 5 + length_at(b, 1)) = 0

\* the key of a SET is there and is not UTF-8
bad_set_key(b) ==
    /\ has_key(b)
    /\ b[1] = 2
    /\ ~from_utf8_ok(Slice(b, 5, 5 + length_at(b, 1)))

(***************************************************************************)
(* C30 as stated.  When the decoded length of a mandatory string field     *)
(* (GET key, SET key or value, DELETE key) is zero, parse_request returns  *)
(* Incomplete: neither a frame nor an error, however many bytes follow.    *)
(***************************************************************************)
C30_ZeroLengthAlwaysIncomplete ==
    (request_parsed /\ (zero_length_key(codec_bytes) \/ zero_length_value(codec_bytes)))
        => codec_result = Incomplete

(***************************************************************************)
(* C30.  When the decoded length of a mandatory string field (GET key, SET *)
(* key or value, DELETE key) is zero, parse_request returns Incomplete and *)
(* never a frame, however many bytes follow; the one exception is a SET    *)
(* whose value has length zero and whose key is not UTF-8, for which it    *)
(* returns the Malformed error.                                            *)
(***************************************************************************)
C30_ZeroLengthIsIncomplete ==
    (request_parsed /\ (zero_length_key(codec_bytes) \/ zero_length_value(codec_bytes)))
        => codec_result = IF zero_length_value(codec_bytes) /\ bad_set_key(codec_bytes)
                          THEN Malformed
                          ELSE Incomplete

\* SET with key "a", a value of length zero and one more byte
C30_Witness ==
    /\ request_parsed
    /\ codec_bytes = <<2, 0, 0, 0, 1, 97, 0, 0, 0, 0, 97>>
    /\ codec_result = Incomplete

(***************************************************************************)
(* C31.  No worker holds the store lock while it reads from or writes to   *)
(* its socket: a worker holds the lock exactly between acquiring it inside *)
(* a store operation and the return of that operation, which precedes the  *)
(* write of the response and the next read.  So whoever holds the lock     *)
(* another worker waits for can finish its operation with no socket I/O.   *)
(***************************************************************************)
C31_NoLockAcrossIo ==
    /\ \A c \in ConnIds : mutex.owner = c <=> workers[c].pc = "locked"
    /\ \A c \in ConnIds :
          (workers[c].pc = "apply" /\ mutex.owner # "none") =>
              /\ mutex.owner \in ConnIds \ { c }
              /\ ENABLED WorkerApply(mutex.owner)

\* c1 has served a request and waits in a read for its peer while c2 holds the
\* lock for an operation of its own
C31_Witness ==
    /\ workers["c1"].pc = "read"
    /\ workers["c1"].served >= 1
    /\ workers["c1"].stream = << >>
    /\ mutex.owner = "c2"

\* how handle_connection ends on an error of the connection other than a
\* failed write: TooMuchData, a reset in the middle of a frame, a frame that
\* is not UTF-8, a failed read, a slice out of range
ConnectionErrors ==
    { "TooMuchData", "ConnectionResetByPeer", "PanicParse", "PanicRead", "PanicSlice" }

(***************************************************************************)
(* C32.  When a connection ends on a connection-scoped error, no byte of a *)
(* reply to the offending frame has been written, every complete frame     *)
(* before it in the buffer has been applied and answered (no complete      *)
(* frame is left at the front of the buffer: they are all drained before   *)
(* the read or the check that ends the connection), and nothing is applied *)
(* or written on the connection afterwards.                                *)
(***************************************************************************)
C32_ErrorEndsCleanly ==
    /\ []((pc = "done" /\ result \in ConnectionErrors) =>
            /\ written = replies(parsed, EmptyMap)
            /\ db = store_after(parsed, EmptyMap)
            /\ parse_request(Slice(buffer, 0, cursor)).res # "Some")
    /\ []((pc \in { "check", "read" }) =>
            /\ written = replies(parsed, EmptyMap)
            /\ parse_request(Slice(buffer, 0, cursor)).res = "None")
    /\ [][pc = "done" =>
            (written' = written /\ db' = db /\ parsed' = parsed /\ pc' = "done")]_vars

\* SET a -> b was applied and answered, and the GET after it, whose key is not
\* UTF-8, ended the connection
C32_Witness ==
    /\ pc = "done"
    /\ result = "PanicParse"
    /\ input_frames = << serialize_request(SetRequest(<<97>>, <<98>>)), BadUtf8Frame >>
    /\ parsed = << SetRequest(<<97>>, <<98>>) >>
    /\ written = <<2>>
    /\ db = store_after(parsed, EmptyMap)

\* the calls of the client that have returned
returned_calls == SubSeq(client_calls, 1, Len(client_results))

(***************************************************************************)
(* C33.  On one client connection the k-th call returns the response to    *)
(* the k-th request, and between calls the client has consumed exactly the *)
(* bytes of the responses to the calls made so far, so that no byte of an  *)
(* earlier response is left to be decoded as the reply of a later call:    *)
(* for every response size and every chunking of the responses.  Stated    *)
(* here for a connection on which no read or write fails.                  *)
(***************************************************************************)
C33_CallsPairWithResponses ==
    NoIoFault =>
        /\ \A i \in 1..Len(client_results) :
              client_results[i] =
                  Ok(response_to(client_calls[i],
                                 store_after(SubSeq(client_calls, 1, i - 1), EmptyMap)))
        /\ client_pc \in { "call", "done" } =>
              client_consumed = Len(replies(returned_calls, EmptyMap))

\* the whole response to the j-th request of connection c has been written
acked(c, j) ==
    \/ j < workers[c].served
    \/ /\ j = workers[c].served
       /\ workers[c].pc \notin { "apply", "locked", "send" }
       /\ workers[c].result # "IO"

\* the operations that acquired the lock before position p
ops_before(p) == ops_of(SubSeq(lock_order, 1, p - 1))

(***************************************************************************)
(* C34.  The store mutation of a SET, DELETE or FLUSH is applied before    *)
(* its acknowledgement is written: a request whose response is on the wire *)
(* has run on the map.  So a GET of k that runs after the acknowledgement  *)
(* of a SET of (k, v) was written, on any connection, comes after that SET *)
(* in the order of the lock and is answered with the binding the           *)
(* operations before it leave for k: v or the value of a later SET, and    *)
(* absent only if a later DELETE of k or FLUSH ran.                        *)
(***************************************************************************)
C34_AppliedBeforeAcked ==
    /\ \A c \in ConnIds : \A j \in 1..workers[c].served :
          acked(c, j) =>
              /\ has_entry(c, j)
              /\ ~IsPendingWorker(lock_order[pos(c, j)])
              /\ lock_order[pos(c, j)].op.op = "Set" =>
                    \/ db_get(db, lock_order[pos(c, j)].op.key)
                          = Some(lock_order[pos(c, j)].op.value)
                    \/ \E q \in (pos(c, j) + 1)..Len(lock_order) :
                          /\ ~IsPendingWorker(lock_order[q])
                          /\ lock_order[q].op.op # "Get"
    /\ \A d \in ConnIds :
          (workers[d].pc = "send" /\ workers[d].request.request.op = "Get") =>
              /\ has_entry(d, workers[d].served)
              /\ workers[d].response =
                    GetResponse(latest_binding(ops_before(pos(d, workers[d].served)),
                                               workers[d].request.request.key))

\* the acknowledgement of c1's SET a -> b is written, and c2's GET of a, which
\* took the lock after it, is about to be answered with b
C34_Witness ==
    /\ acked("c1", 1)
    /\ lock_order[pos("c1", 1)].op = SetRequest(<<97>>, <<98>>)
    /\ workers["c2"].pc = "send"
    /\ workers["c2"].request.request = GetRequest(<<97>>)
    /\ pos("c2", 1) > pos("c1", 1)
    /\ workers["c2"].response = GetResponse(Some(<<98>>))

(***************************************************************************)
(* C35.  For every finite input stream followed by end of stream and every *)
(* initial_buffer_size >= 1, handle_connection eventually returns, Ok or   *)
(* an error.  (A run that a failed read or write ends, which the claim     *)
(* leaves aside, counts as ended.)                                         *)
(***************************************************************************)
C35_EventuallyReturns ==
    initial_buffer_size >= 1 =>
        <>(pc = "done" /\ result \notin { "PanicParse", "PanicSlice" })

\* the first byte of the connection's unparsed data is no opcode
HeadNotOpcode == cursor > 0 /\ (buffer[1] = 0 \/ buffer[1] > 4)

(***************************************************************************)
(* C36.  A byte that is no opcode (0 or greater than 4) at the head of a   *)
(* connection's unparsed data is never consumed or skipped: from then on   *)
(* it stays at the head, no request is applied or answered, whatever       *)
(* follows it, and the connection ends only with TooMuchData or            *)
(* ConnectionResetByPeer.  (A failed read, which is an error of the        *)
(* transport, is left aside.)                                              *)
(***************************************************************************)
C36_NoOpcodeStalls ==
    /\ []((HeadNotOpcode /\ pc = "done" /\ NoIoFault) =>
            result \in { "TooMuchData", "ConnectionResetByPeer" })
    /\ [][HeadNotOpcode =>
            /\ HeadNotOpcode'
            /\ buffer'[1] = buffer[1]
            /\ parsed' = parsed
            /\ written' = written
            /\ db' = db]_vars

=============================================================================
